---------------------------- MODULE Spec2Model ----------------------------
(***************************************************************************)
(* A model of report_app.py: the signed session token, the login/logout    *)
(* router, and the row-addressed access to the Orders and Clients sheets   *)
(* with its audit log.                                                     *)
(*                                                                         *)
(* Text is modelled as sequences of character codes (bytes), so that the   *)
(* '|' separated token format, the base64 transport encoding and           *)
(* str.strip() are computed the way the code computes them.                *)
(***************************************************************************)
EXTENDS Integers, Sequences, FiniteSets, TLC

(***************************************************************************)
(* Bounds of the model.                                                    *)
(***************************************************************************)
\* longest username / display name drawn for the token harness
MaxNameLen == 2
\* number of clock steps taken
MaxTicks == 1
\* edits of the Users sheet made by other admin sessions
MaxAdminEdits == 1
\* changes of the cookie jar made outside the session
MaxBrowserEdits == 1
\* cookie writes that may be outstanding at once
MaxPending == 2
\* audit rows written in one behaviour of the sheets model
MaxAudit == 2
\* row numbers one admin session enters into its row widgets
MaxPicks == 1
\* data rows below row 1 in the tabs of the header harness
MaxDataRows == 2
\* rows added to each of the Clients and Users tabs by the admin screens
MaxAdded == 1
\* rows of the FilterPresets tab
MaxPresets == 2
\* users created in the model of the users tab
MaxCreated == 2
\* orders in the tab when the orders model starts
OrdersAtStart == 2
\* orders submitted beyond the ones the orders tab starts with
MaxSubmits == 1
\* steps of the clock in the orders model
MaxWaits == 1

(***************************************************************************)
(* Program constants.                                                      *)
(***************************************************************************)
COOKIE_EXPIRY_DAYS == 180
\* length of hashlib.sha256(...).hexdigest()
DigestHexLen == 64
\* the '|' field separator of the token
Pipe == 124
\* the '=' padding character of base64
B64Pad == 61

\* Python's None / a raised exception, and a returned value
None == [ok |-> FALSE]
Some(v) == [ok |-> TRUE, v |-> v]

(***************************************************************************)
(* Text helpers.                                                           *)
(***************************************************************************)
\* str(int): the decimal digits of a natural number below 10^10
NumDigits(n) == IF n = 0 THEN 1 ELSE CHOOSE d \in 1..10 : (n \div (10 ^ (d - 1))) \in 1..9
Itoa(n) == [i \in 1..NumDigits(n) |-> 48 + ((n \div (10 ^ (NumDigits(n) - i))) % 10)] \o << >>

IsDigit(c) == c >= 48 /\ c <= 57

\* int(s) for an ASCII string: the decimal value, or None where int() raises
\* ValueError.  (int() also accepts a sign, surrounding blanks and '_'
\* separators; no payload the signature check lets through has them.)
DigitsValue(s) ==
    LET dv[i \in 0..Len(s)] == IF i = 0 THEN 0 ELSE 10 * dv[i - 1] + (s[i] - 48)
    IN dv[Len(s)]

ParseInt(s) ==
    IF s # << >> /\ \A i \in 1..Len(s) : IsDigit(s[i]) THEN Some(DigitsValue(s)) ELSE None

\* the positions of the separator c in s, and the k-th of them
Positions(s, c) == {i \in 1..Len(s) : s[i] = c}
NthPosition(s, c, k) ==
    CHOOSE i \in Positions(s, c) : Cardinality({j \in Positions(s, c) : j < i}) = k - 1

\* token.split("|", 3) followed by the 4-way unpacking: the four fields, or
\* None where the unpacking raises ValueError (fewer than three separators)
Split3(s) ==
    IF Cardinality(Positions(s, Pipe)) < 3 THEN None
    ELSE LET p1 == NthPosition(s, Pipe, 1)
             p2 == NthPosition(s, Pipe, 2)
             p3 == NthPosition(s, Pipe, 3)
         IN [ok       |-> TRUE,
             username |-> SubSeq(s, 1, p1 - 1),
             name     |-> SubSeq(s, p1 + 1, p2 - 1),
             exp_str  |-> SubSeq(s, p2 + 1, p3 - 1),
             sig      |-> SubSeq(s, p3 + 1, Len(s))]

\* f"{a}|{b}|{c}"
Join3(a, b, c) == a \o << Pipe >> \o b \o << Pipe >> \o c

(***************************************************************************)
(* base64.urlsafe_b64encode / urlsafe_b64decode.                           *)
(***************************************************************************)
\* the URL-safe alphabet: A-Z a-z 0-9 - _
B64Char(v) ==
    IF v < 26 THEN 65 + v
    ELSE IF v < 52 THEN 71 + v
    ELSE IF v < 62 THEN v - 4
    ELSE IF v = 62 THEN 45 ELSE 95

\* byte k of bs, or 0 past its end (the zero bits base64 pads a short group with)
ByteOr0(bs, k) == IF k <= Len(bs) THEN bs[k] ELSE 0

\* character j of the encoding: groups of 3 bytes become 4 characters, a
\* short last group is completed with '='
B64EncodedChar(bs, j) ==
    LET g  == (j - 1) \div 4
        k  == (j - 1) % 4
        b1 == ByteOr0(bs, 3 * g + 1)
        b2 == ByteOr0(bs, 3 * g + 2)
        b3 == ByteOr0(bs, 3 * g + 3)
    IN IF k = 0 THEN B64Char(b1 \div 4)
       ELSE IF k = 1 THEN B64Char((b1 % 4) * 16 + (b2 \div 16))
       ELSE IF k = 2 THEN
           (IF 3 * g + 2 > Len(bs) THEN B64Pad ELSE B64Char((b2 % 16) * 4 + (b3 \div 64)))
       ELSE (IF 3 * g + 3 > Len(bs) THEN B64Pad ELSE B64Char(b3 % 64))

urlsafe_b64encode(bs) ==
    [j \in 1..(4 * ((Len(bs) + 2) \div 3)) |-> B64EncodedChar(bs, j)] \o << >>

\* The decoding table after urlsafe_b64decode's translation of '-' to '+'
\* and of '_' to '/': both spellings of 62 and 63 are accepted, every other
\* byte is outside the alphabet (64).
B64Val(c) ==
    IF c >= 65 /\ c <= 90 THEN c - 65
    ELSE IF c >= 97 /\ c <= 122 THEN c - 71
    ELSE IF c >= 48 /\ c <= 57 THEN c + 4
    ELSE IF c = 45 \/ c = 43 THEN 62
    ELSE IF c = 95 \/ c = 47 THEN 63
    ELSE 64

IsB64Significant(c) == c = B64Pad \/ B64Val(c) < 64

\* byte k of the bit stream formed by the 6-bit values d
B64DecodedByte(d, k) ==
    LET g == (k - 1) \div 3
        r == (k - 1) % 3
    IN IF r = 0 THEN d[4 * g + 1] * 4 + (d[4 * g + 2] \div 16)
       ELSE IF r = 1 THEN (d[4 * g + 2] % 16) * 16 + (d[4 * g + 3] \div 4)
       ELSE (d[4 * g + 3] % 4) * 64 + d[4 * g + 4]

\* binascii.a2b_base64 in its default (non-strict) mode.  Bytes outside
\* the alphabet are skipped.  With quad the number of data characters read
\* so far modulo 4, the parse ends at the first '=' that completes the quad
\* (quad = 3, or quad = 2 and the '=' follows another '='), ignoring the
\* rest; without such a pad the input must end on a full quad, else
\* binascii.Error is raised (None).
urlsafe_b64decode(s) ==
    LET F == SelectSeq(s, IsB64Significant)
        padAt == {j \in 1..Len(F) : F[j] = B64Pad}
        DataBefore(j) == (j - 1) - Cardinality({i \in padAt : i < j})
        Stops(j) == \/ DataBefore(j) % 4 = 3
                    \/ DataBefore(j) % 4 = 2 /\ (j - 1) \in padAt
        stops == {j \in padAt : Stops(j)}
        stopAt == IF stops = {} THEN Len(F) + 1
                  ELSE CHOOSE j \in stops : \A i \in stops : j <= i
        taken == SubSeq(F, 1, stopAt - 1)
        dchars == SelectSeq(taken, LAMBDA c : c # B64Pad)
        d == [i \in 1..Len(dchars) |-> B64Val(dchars[i])]
        q == Len(dchars) % 4
        n == 3 * (Len(dchars) \div 4) + (IF q = 0 THEN 0 ELSE q - 1)
    IN IF stops = {} /\ q # 0 THEN None
       ELSE Some([k \in 1..n |-> B64DecodedByte(d, k)] \o << >>)

\* bytes.decode("utf-8"): the text, or None where it raises
\* UnicodeDecodeError.  Every text of the model is ASCII; a byte >= 128 in
\* a decoded token is either malformed UTF-8 or a non-ASCII character, on
\* which hmac.compare_digest raises TypeError: verify_token returns None
\* either way.
Utf8Decode(bs) ==
    IF ~bs.ok THEN None
    ELSE IF \E i \in 1..Len(bs.v) : bs.v[i] >= 128 THEN None ELSE bs

(***************************************************************************)
(* Token helpers.                                                          *)
(***************************************************************************)
HexDigit(v) == IF v < 10 THEN 48 + v ELSE 87 + v

\* bytes.hex(): two lowercase hex digits per byte
HexOf(bs) ==
    [j \in 1..(2 * Len(bs)) |->
        IF j % 2 = 1 THEN HexDigit(bs[(j + 1) \div 2] \div 16)
        ELSE HexDigit(bs[j \div 2] % 16)] \o << >>

\* _sign: HMAC-SHA256 of the payload under COOKIE_SECRET, as DigestHexLen
\* lowercase hex characters.  The keyed hash is modelled by a function that
\* is collision-free on the payloads of the model (their hex image, zero
\* padded to the digest length) and that only the server evaluates.  The
\* digits of a real digest vary with the payload; the padding makes the last
\* digit '0', one of the values a real digest ends in.
Sign(payload) ==
    LET h == HexOf(payload) IN
    IF Len(h) >= DigestHexLen THEN SubSeq(h, 1, DigestHexLen)
    ELSE h \o [i \in 1..(DigestHexLen - Len(h)) |-> 48]

\* issue_token(username, name) called when time.time() is clock (whole seconds)
issue_token(username, name, clock) ==
    LET exp     == clock + COOKIE_EXPIRY_DAYS * 86400
        payload == Join3(username, name, Itoa(exp))
        sig     == Sign(payload)
        token   == payload \o << Pipe >> \o sig
    IN urlsafe_b64encode(token)

\* the expiry test of verify_token: int(exp_str) < clock rejects
ExpiredAt(exp, clock) == exp < clock

\* verify_token(token_b64) evaluated at clock value clock: the identity, or None
verify_token(token_b64, clock) ==
    LET token == Utf8Decode(urlsafe_b64decode(token_b64)) IN
    IF ~token.ok THEN None
    ELSE LET f == Split3(token.v) IN
      IF ~f.ok THEN None
      ELSE IF f.sig # Sign(Join3(f.username, f.name, f.exp_str)) THEN None
      ELSE LET exp == ParseInt(f.exp_str) IN
        IF ~exp.ok THEN None
        ELSE IF ExpiredAt(exp.v, clock) THEN None
        ELSE [ok |-> TRUE, username |-> f.username, name |-> f.name]


(***************************************************************************)
(* State.                                                                  *)
(***************************************************************************)
VARIABLES
    tk,         \* the token harness: inputs, the token under test, the result
    users,      \* the Users sheet: its data rows, in sheet order
    sessTok,    \* st.session_state[SESSION_TOKEN_KEY]; << >> when absent
    flag,       \* st.session_state[POST_LOGOUT_FLAG]
    cookie,     \* the browser's COOKIE_NAME cookie; << >> when absent
    pending,    \* cookie writes handed to the cookie component, not yet executed
    now,        \* the clock, in whole seconds
    req,        \* what the last script run read, decided and rendered
    awaiting,   \* a logout happened and no cookie read has yet shown the cookie absent
    edits,      \* how often the Users sheet and the cookie jar were changed from outside
    tokenTable, \* issue_token and verify_token on the tokens of the session model
    orders,     \* the orders tab (Sheet1): its data rows, sheet row 2 first
    clients,    \* the Clients tab: its data rows, sheet row 2 first
    audit,      \* the AuditLog tab: its data rows
    clientsCache, \* what st.cache_data holds for load_clients_df
    adm,        \* per admin session: the row widgets and the forms last rendered
    last,       \* the last button handled in admin_tools and what it did
    presets,    \* the FilterPresets tab: its data rows
    pend,       \* per admin session: the order write a run has prepared, not yet sent
    hd          \* the header harness: a tab's cells before and after reconciliation

harnessVars == << tk >>
sessionVars ==
    << users, sessTok, flag, cookie, pending, now, req, awaiting, edits, tokenTable >>
sheetVars   == << orders, clients, audit, clientsCache, adm, last >>
tableVars   == << presets, pend, hd >>
vars == << tk, users, sessTok, flag, cookie, pending, now, req, awaiting, edits,
           tokenTable, orders, clients, audit, clientsCache, adm, last,
           presets, pend, hd >>

\* issue_token and verify_token in the session model: the table holds their
\* values on every (user, clock) and (token, clock) the session can meet
IssueAt(username, name, clock) == tokenTable.issue[<< username, name, clock >>]
VerifyAt(tok, clock) == tokenTable.verify[<< tok, clock >>]

(***************************************************************************)
(* The Users sheet and the credential check.                               *)
(***************************************************************************)
\* the first two built-in accounts, an admin and a team member; Username and
\* DisplayName as character codes ("jerry", "Jerry", "wolf1", "Wolf 1")
SEED_USERS ==
    << [Username |-> << 106, 101, 114, 114, 121 >>,
        DisplayName |-> << 74, 101, 114, 114, 121 >>,
        Role |-> "admin", Password |-> "Qa9$gH!7k2@", Active |-> "TRUE"],
       [Username |-> << 119, 111, 108, 102, 49 >>,
        DisplayName |-> << 87, 111, 108, 102, 32, 49 >>,
        Role |-> "team", Password |-> "tu8*NMh2!5", Active |-> "TRUE"] >>

\* str(cell).upper() in ["TRUE","1","YES","Y"]; the cells of the model are
\* the upper-case texts the application itself writes
IsActiveCell(cell) == cell \in {"TRUE", "1", "YES", "Y"}

\* get_active_users(): the rows whose Active cell parses as true
get_active_users(rows) == SelectSeq(rows, LAMBDA u : IsActiveCell(u.Active))

\* the first row of rows with this Username, or None
FirstRowOf(rows, username) ==
    IF \E i \in 1..Len(rows) : rows[i].Username = username
    THEN Some(rows[CHOOSE i \in 1..Len(rows) :
                    /\ rows[i].Username = username
                    /\ \A j \in 1..(i - 1) : rows[j].Username # username])
    ELSE None

\* get_user_record(username): the first row with that Username, its Active
\* cell parsed, or None
get_user_record(rows, username) ==
    LET r == FirstRowOf(rows, username) IN
    IF ~r.ok THEN None
    ELSE [ok |-> TRUE, Role |-> r.v.Role, Active |-> IsActiveCell(r.v.Active)]

\* the check of the record with the Active test left out
RecordBlocksMissingOnly(rec) == ~rec.ok

\* "if not rec or not rec['Active']": the identity may not be served
RecordBlocks(rec) == ~rec.ok \/ ~rec.Active

NoClick == [kind |-> "none"]

\* render_login with the password comparison left out
render_login_any_password(rows, click, clock) ==
    LET active == get_active_users(rows)
        row    == FirstRowOf(active, click.username)
    IN IF click.kind = "login" /\ active # << >> /\ row.ok
       THEN IssueAt(row.v.Username, row.v.DisplayName, clock)
       ELSE << >>

\* render_login(get_active_users()): with no active user nothing is offered;
\* a Login click on one of the offered usernames stores a fresh token when
\* the typed password equals the stored one.  Yields the new session token,
\* or << >> when none is stored.
render_login(rows, click, clock) ==
    LET active == get_active_users(rows)
        row    == FirstRowOf(active, click.username)
    IN IF click.kind = "login" /\ active # << >> /\ row.ok
          /\ click.password = row.v.Password
       THEN IssueAt(row.v.Username, row.v.DisplayName, clock)
       ELSE << >>

(***************************************************************************)
(* The tokens of the session model.                                        *)
(***************************************************************************)
\* clock step: one second more than the token lifetime, so that a token is
\* seen fresh and, one step later, expired
ClockStep == COOKIE_EXPIRY_DAYS * 86400 + 1

\* cookie values the browser can hold that this session never issued
Garbage == << 33, 33 >>
ForgedToken ==
    urlsafe_b64encode(Join3(SEED_USERS[1].Username, SEED_USERS[1].DisplayName,
                            Itoa(9 * ClockStep))
                      \o << Pipe >> \o [i \in 1..DigestHexLen |-> 102])
\* a genuine token of an account whose row is no longer in the Users sheet
StaleUserToken == issue_token(<< 122, 111, 101 >>, << 90, 111, 101 >>, 0)
ForeignCookies == {Garbage, ForgedToken, StaleUserToken}

\* the clock values of the session model, and every token it can meet
SessionClocks == {k * ClockStep : k \in 0..MaxTicks}
SessionTokens ==
    ForeignCookies \cup
    {issue_token(SEED_USERS[i].Username, SEED_USERS[i].DisplayName, c) :
        i \in 1..Len(SEED_USERS), c \in SessionClocks}

\* issue_token for the accounts and verify_token for the tokens of the
\* session model, at each of its clock values
IssueTable ==
    [p \in {<< SEED_USERS[i].Username, SEED_USERS[i].DisplayName, c >> :
               i \in 1..Len(SEED_USERS), c \in SessionClocks}
        |-> issue_token(p[1], p[2], p[3])] @@ << >>
VerifyTable ==
    [p \in SessionTokens \X SessionClocks |-> verify_token(p[1], p[2])] @@ << >>

(***************************************************************************)
(* The router (the body of debug_google_access from init_all_sheets on).   *)
(***************************************************************************)
ClearCookie == << >>       \* clear_cookie(): set the cookie to "" with max_age 0

\* cookie_manager.get_all(): None while the component has not reported, else
\* the cookies of the browser
Unknown == [known |-> FALSE]
Known(v) == [known |-> TRUE, value |-> v]

\* the logout cycle taking the cookie for present whatever was read
CookieAlwaysReported(cookies) == TRUE

\* "cookies and cookies.get(COOKIE_NAME)" in the logout cycle
CookieStillReported(cookies) == cookies.known /\ cookies.value # << >>

\* "cookies is not None and not cookies.get(COOKIE_NAME)" before set_cookie
CookieNeedsSet(cookies) == cookies.known /\ cookies.value = << >>

\* the token a verified identity is taken from: the session token when it
\* verifies, else the cookie's, else none
SessionVerifies(tok, clock) == tok # << >> /\ VerifyAt(tok, clock).ok
CookieVerifies(cookies, clock) ==
    cookies.known /\ cookies.value # << >> /\ VerifyAt(cookies.value, clock).ok

\* the resolution with the cookie asked first
IdentitySourceCookieFirst(tok, cookies, clock) ==
    IF CookieVerifies(cookies, clock) THEN "cookie"
    ELSE IF SessionVerifies(tok, clock) THEN "session"
    ELSE "none"

IdentitySource(tok, cookies, clock) ==
    IF SessionVerifies(tok, clock) THEN "session"
    ELSE IF CookieVerifies(cookies, clock) THEN "cookie"
    ELSE "none"

\* every served identity sent to the Admin view
ViewAlwaysAdmin(rec) == "admin"

\* the view a served identity is dispatched to
ViewOf(rec) == IF rec.Role = "admin" THEN "admin" ELSE "team"

\* One script run.  click is the widget event that started it (NoClick for a
\* programmatic rerun or a component update), cookies what get_all() returns.
\* Yields the new session token and flag, the cookie writes issued, in order,
\* and what was rendered.
Route(rows, tok, flg, cookies, click, clock) ==
    LET src      == IdentitySource(tok, cookies, clock)
        user     == IF src = "session" THEN VerifyAt(tok, clock)
                    ELSE VerifyAt(cookies.value, clock)
        rec      == get_user_record(rows, user.username)
        loginTok == render_login(rows, click, clock)
        base     == [sess |-> tok, flag |-> flg, writes |-> << >>, view |-> "suspend",
                     source |-> "none", user |-> << >>, blocked |-> FALSE,
                     stored |-> FALSE]
    IN
    IF flg THEN
        \* Handle logout cycle
        IF CookieStillReported(cookies)
        THEN [base EXCEPT !.writes = << ClearCookie >>, !.view = "logging_out"]
        ELSE IF loginTok # << >>
        THEN [base EXCEPT !.flag = FALSE, !.sess = loginTok, !.stored = TRUE,
                          !.view = "rerun"]
        ELSE [base EXCEPT !.flag = FALSE, !.view = "login"]
    ELSE IF src = "session" THEN
        \* Fresh session token
        IF RecordBlocks(rec) THEN
            IF loginTok # << >>
            THEN [base EXCEPT !.sess = loginTok, !.stored = TRUE,
                              !.writes = << ClearCookie >>, !.view = "rerun",
                              !.source = src, !.user = user.username, !.blocked = TRUE]
            ELSE [base EXCEPT !.sess = << >>, !.writes = << ClearCookie >>,
                              !.view = "inactive",
                              !.source = src, !.user = user.username, !.blocked = TRUE]
        ELSE LET w == IF CookieNeedsSet(cookies) THEN << tok >> ELSE << >> IN
            IF click.kind = "logout"
            THEN [base EXCEPT !.sess = << >>, !.flag = TRUE,
                              !.writes = w \o << ClearCookie >>, !.view = "rerun",
                              !.source = src, !.user = user.username]
            ELSE [base EXCEPT !.writes = w, !.view = ViewOf(rec),
                              !.source = src, !.user = user.username]
    ELSE IF ~cookies.known THEN
        \* Returning visit, cookies not reported yet: st.stop()
        base
    ELSE IF src = "cookie" THEN
        IF RecordBlocks(rec) THEN
            IF loginTok # << >>
            THEN [base EXCEPT !.sess = loginTok, !.stored = TRUE,
                              !.writes = << ClearCookie >>, !.view = "rerun",
                              !.source = src, !.user = user.username, !.blocked = TRUE]
            ELSE [base EXCEPT !.writes = << ClearCookie >>, !.view = "inactive",
                              !.source = src, !.user = user.username, !.blocked = TRUE]
        ELSE IF click.kind = "logout"
            THEN [base EXCEPT !.sess = << >>, !.flag = TRUE,
                              !.writes = << ClearCookie >>, !.view = "rerun",
                              !.source = src, !.user = user.username]
            ELSE [base EXCEPT !.view = ViewOf(rec),
                              !.source = src, !.user = user.username]
    ELSE
        \* No auth: show login
        IF loginTok # << >>
        THEN [base EXCEPT !.sess = loginTok, !.stored = TRUE, !.view = "rerun"]
        ELSE [base EXCEPT !.view = "login"]

(***************************************************************************)
(* Actions of the session model.                                           *)
(***************************************************************************)
WrongPassword == "bad"

\* the widget events the last rendered screen offers
Clicks ==
    {NoClick}
    \cup (IF req.view \in {"team", "admin"} THEN {[kind |-> "logout"]} ELSE {})
    \cup (IF req.view \in {"login", "inactive"}
          THEN {[kind |-> "login", username |-> users[i].Username,
                  password |-> IF good THEN users[i].Password ELSE WrongPassword] :
                    i \in 1..Len(users), good \in BOOLEAN}
          ELSE {})

\* the password typed equals the stored password of an active row of that
\* username (the check itself, read off the sheet)
CredentialsOk(click) ==
    /\ click.kind = "login"
    /\ \E i \in 1..Len(users) :
          /\ users[i].Username = click.username
          /\ users[i].Active = "TRUE"
          /\ users[i].Password = click.password
          /\ \A j \in 1..(i - 1) :
                users[j].Username # click.username \/ users[j].Active # "TRUE"

\* the username a token verifies to at that clock value; << >> when it does not
UserOf(tok, clock) ==
    IF tok # << >> /\ VerifyAt(tok, clock).ok THEN VerifyAt(tok, clock).username
    ELSE << >>

\* that username has a row in the Users sheet and the row is active
Servable(username) ==
    \E i \in 1..Len(users) : users[i].Username = username /\ users[i].Active = "TRUE"

SessionStart ==
    /\ users = SEED_USERS
    /\ sessTok = << >>
    /\ flag = FALSE
    /\ pending = << >>
    /\ now = 0
    /\ req = [view |-> "none", source |-> "none", user |-> << >>, click |-> "none",
              read |-> FALSE, sessUser |-> << >>, cookieUser |-> << >>,
              servable |-> FALSE, credOk |-> FALSE, stored |-> FALSE,
              cleared |-> FALSE, kept |-> FALSE, flagBefore |-> FALSE, beat |-> 0]
    /\ awaiting = FALSE
    /\ edits = [admin |-> 0, browser |-> 0]

\* one script run of the session (main_router(); debug_google_access()).
\* req records what the run read (read, sessUser, cookieUser, flagBefore,
\* click, credOk), what it rendered (view, source, user, servable) and what
\* it did to the token stores (stored, kept, cleared).
ServeRequest(click, cookies) ==
    LET r == Route(users, sessTok, flag, cookies, click, now) IN
    /\ Len(pending) + Len(r.writes) <= MaxPending
    /\ sessTok' = r.sess
    /\ flag' = r.flag
    /\ pending' = pending \o r.writes
    /\ req' = [view |-> r.view, source |-> r.source, user |-> r.user,
               click |-> click.kind,
               read |-> cookies.known,
               sessUser |-> UserOf(sessTok, now),
               cookieUser |-> IF cookies.known THEN UserOf(cookies.value, now)
                              ELSE << >>,
               servable |-> r.source # "none" /\ Servable(r.user),
               credOk |-> CredentialsOk(click),
               stored |-> r.sess # << >> /\ r.sess # sessTok,
               cleared |-> \E k \in 1..Len(r.writes) : r.writes[k] = ClearCookie,
               kept |-> sessTok # << >> /\ r.sess = sessTok,
               flagBefore |-> flag,
               beat |-> 1 - req.beat]
    /\ awaiting' = IF r.flag /\ ~flag THEN TRUE
                   ELSE IF cookies.known /\ cookies.value = << >> THEN FALSE
                   ELSE awaiting
    /\ UNCHANGED << users, cookie, now, edits >>
    /\ UNCHANGED << tk, tokenTable, sheetVars, tableVars >>

\* the browser executes the oldest outstanding cookie write
ApplyCookieWrite ==
    /\ pending # << >>
    /\ cookie' = Head(pending)
    /\ pending' = Tail(pending)
    /\ UNCHANGED << users, sessTok, flag, now, req, awaiting, edits >>
    /\ UNCHANGED << tk, tokenTable, sheetVars, tableVars >>

\* the cookie jar changes outside this session: another tab of the browser
\* logs in or out, or the client plants a value
BrowserSetsCookie(v) ==
    /\ edits.browser < MaxBrowserEdits
    /\ cookie' = v
    /\ cookie' # cookie
    /\ edits' = [edits EXCEPT !.browser = @ + 1]
    /\ UNCHANGED << users, sessTok, flag, pending, now, req, awaiting >>
    /\ UNCHANGED << tk, tokenTable, sheetVars, tableVars >>

\* "Update user" in another admin session: role and Active of a row rewritten
AdminUpdateUser(i, role, active) ==
    /\ edits.admin < MaxAdminEdits
    /\ users' = [users EXCEPT ![i].Role = role, ![i].Active = active]
    /\ users' # users
    /\ edits' = [edits EXCEPT !.admin = @ + 1]
    /\ UNCHANGED << sessTok, flag, cookie, pending, now, req, awaiting >>
    /\ UNCHANGED << tk, tokenTable, sheetVars, tableVars >>

Tick ==
    /\ now < MaxTicks * ClockStep
    /\ now' = now + ClockStep
    /\ UNCHANGED << users, sessTok, flag, cookie, pending, req, awaiting, edits >>
    /\ UNCHANGED << tk, tokenTable, sheetVars, tableVars >>

\* tokens another tab of the same browser can obtain now
OtherTabTokens ==
    {IssueAt(users[i].Username, users[i].DisplayName, now) :
        i \in {j \in 1..Len(users) : IsActiveCell(users[j].Active)}}

SessionNext ==
    \/ \E click \in Clicks, cookies \in {Unknown, Known(cookie)} :
          ServeRequest(click, cookies)
    \/ ApplyCookieWrite
    \/ \E v \in ForeignCookies \cup OtherTabTokens \cup {<< >>} : BrowserSetsCookie(v)
    \/ \E i \in 1..Len(users), role \in {"admin", "team"}, active \in {"TRUE", "FALSE"} :
          AdminUpdateUser(i, role, active)
    \/ Tick

(***************************************************************************)
(* The orders and Clients tabs under admin_tools, and the audit log.       *)
(***************************************************************************)
ORDERS_SHEET == "Sheet1"
CLIENTS_SHEET == "Clients"

\* str.strip(): leading and trailing whitespace removed
IsSpace(c) == c \in {9, 10, 11, 12, 13, 28, 29, 30, 31, 32, 133, 160}
Strip(s) ==
    LET keep == {i \in 1..Len(s) : ~IsSpace(s[i])} IN
    IF keep = {} THEN << >>
    ELSE SubSeq(s, CHOOSE i \in keep : \A j \in keep : i <= j,
                   CHOOSE i \in keep : \A j \in keep : i >= j)

\* "-" as a text
Dash == << 45 >>

\* the Timestamp of a row whose cell is blank or does not parse as a date
\* (pd.to_datetime(..., errors="coerce") yields NaT)
NoTimestamp == -1

\* "Completed" if age_h >= 120 else "In Process", age_h the hours since
\* Timestamp; the age of a row without a timestamp is filled with 0
LiveStatus(ts, clock) ==
    IF ts # NoTimestamp /\ clock - ts >= 120 * 3600 THEN "Completed" ELSE "In Process"

\* Amounts are in hundredths, percentages in tenths of a percent.
\* round(Amount * ProfitPct / 100.0, 2) is the nearest hundredth of the
\* product; when the product lies exactly between two hundredths the result
\* is the one the double nearest to it rounds to.  TieRoundsUp lists, for the
\* amounts and percentages of the model, the ties CPython rounds up
\* (0.01 at 50%: 0.01, 0.50 at 1%: 0.01; but 0.03 at 50%: 0.01, 1.50 at 1%: 0.01).
TieRoundsUp(amount, pct) == << amount, pct >> \in {<< 1, 500 >>, << 50, 10 >>}
ProfitAmtOf(amount, pct) ==
    LET x == amount * pct
        q == x \div 1000
        r == x % 1000
    IN IF r > 500 \/ (r = 500 /\ TieRoundsUp(amount, pct)) THEN q + 1 ELSE q

\* the rows the tabs hold when the sessions of the model start: three orders
\* of 100.00, 200.00 and 300.00 at 10%, as "Submit Order" stores them.
\* Timestamp is the second the order was entered; id names a Clients row
\* across edits and shifts and is no cell of the sheet.
SeedOrders ==
    << [Timestamp |-> 1, User |-> "Wolf 1", Client |-> "Acme", Amount |-> 10000,
        ProfitPct |-> 100, ProfitAmt |-> 1000, Status |-> "In Process"],
       [Timestamp |-> 2, User |-> "Wolf 1", Client |-> "Bolt", Amount |-> 20000,
        ProfitPct |-> 100, ProfitAmt |-> 2000, Status |-> "In Process"],
       [Timestamp |-> 3, User |-> "Wolf 1", Client |-> "Core", Amount |-> 30000,
        ProfitPct |-> 100, ProfitAmt |-> 3000, Status |-> "In Process"] >>
SeedClients ==
    << [id |-> 1, User |-> "Wolf 1", Client |-> "Acme", OpenDate |-> "2024-01-01"],
       [id |-> 2, User |-> "Wolf 1", Client |-> "Bolt", OpenDate |-> "2024-01-02"],
       [id |-> 3, User |-> "Wolf 1", Client |-> "Core", OpenDate |-> "2024-01-03"] >>

\* the loader handing on the Status cell as stored
load_orders_stored_status(rows, clock) ==
    [i \in 1..Len(rows) |-> [SheetRow |-> i + 1, row |-> rows[i]]]

\* load_orders_with_rows(): every data row with its sheet row number and its
\* Status computed live
load_orders_with_rows(rows, clock) ==
    [i \in 1..Len(rows) |->
        [SheetRow |-> i + 1,
         row |-> [rows[i] EXCEPT !.Status = LiveStatus(rows[i].Timestamp, clock)]]]

\* load_clients_df(): every data row with its sheet row number
load_clients_rows(rows) == [i \in 1..Len(rows) |-> [SheetRow |-> i + 1, row |-> rows[i]]]

\* load_clients_df() under st.cache_data: the cached frame while there is one
load_clients_df(cache, rows) == IF cache.ok THEN cache.v ELSE load_clients_rows(rows)

\* df[df["SheetRow"] == sheet_row]: its first row, or None when empty
RowAt(df, sheet_row) ==
    IF \E i \in 1..Len(df) : df[i].SheetRow = sheet_row
    THEN Some(df[CHOOSE i \in 1..Len(df) :
                    /\ df[i].SheetRow = sheet_row
                    /\ \A j \in 1..(i - 1) : df[j].SheetRow # sheet_row].row)
    ELSE None

\* a row of the orders tab or of the Clients tab with every cell blank
BlankOrder ==
    [Timestamp |-> NoTimestamp, User |-> "", Client |-> "", Amount |-> 0,
     ProfitPct |-> 0, ProfitAmt |-> 0, Status |-> ""]
BlankClient == [id |-> 0, User |-> "", Client |-> "", OpenDate |-> ""]
BlankLike(values) == IF "Timestamp" \in DOMAIN values THEN BlankOrder ELSE BlankClient

\* ws.update of the cells of one sheet row: a row below the last one is
\* written where it is addressed, the rows in between stay blank
UpdateRow(rows, sheet_row, values) ==
    [i \in 1..(IF sheet_row - 1 > Len(rows) THEN sheet_row - 1 ELSE Len(rows)) |->
        IF i = sheet_row - 1 THEN values
        ELSE IF i <= Len(rows) THEN rows[i] ELSE BlankLike(values)] \o << >>

\* ws.delete_rows(sheet_row)
delete_rows(rows, sheet_row) ==
    IF sheet_row - 1 \in 1..Len(rows)
    THEN [i \in 1..(Len(rows) - 1) |->
            IF i < sheet_row - 1 THEN rows[i] ELSE rows[i + 1]] \o << >>
    ELSE rows

\* the audit row put in above the first data row
log_audit_prepending(log, clock, actor, action, target_sheet, sheet_row, reason, old_obj, new_obj) ==
    << [At |-> clock, Actor |-> actor, Action |-> action,
        TargetSheet |-> target_sheet, SheetRow |-> sheet_row,
        Reason |-> IF reason = << >> THEN Dash ELSE reason,
        OldJSON |-> old_obj, NewJSON |-> new_obj] >> \o log

\* log_audit: one row appended to the AuditLog tab
log_audit(log, clock, actor, action, target_sheet, sheet_row, reason, old_obj, new_obj) ==
    Append(log, [At |-> clock, Actor |-> actor, Action |-> action,
                 TargetSheet |-> target_sheet, SheetRow |-> sheet_row,
                 Reason |-> IF reason = << >> THEN Dash ELSE reason,
                 OldJSON |-> old_obj, NewJSON |-> new_obj])

\* the write refused when the row no longer holds what old_record was
\* loaded from
update_order_row_checking(rows, log, clock, sheet_row, new_values, actor, reason, old_record) ==
    LET stored == IF sheet_row - 1 \in 1..Len(rows) THEN rows[sheet_row - 1]
                  ELSE BlankOrder
        full == [old_record EXCEPT
                    !.Client = new_values.Client,
                    !.Amount = new_values.Amount,
                    !.ProfitPct = new_values.ProfitPct,
                    !.ProfitAmt = ProfitAmtOf(new_values.Amount, new_values.ProfitPct),
                    !.Status = LiveStatus(old_record.Timestamp, clock)]
    IN IF [stored EXCEPT !.Status = old_record.Status] = old_record
       THEN [rows |-> UpdateRow(rows, sheet_row, full),
             log |-> log_audit(log, clock, actor, "EDIT_ORDER", ORDERS_SHEET, sheet_row,
                               reason, Some(old_record), Some(full))]
       ELSE [rows |-> rows, log |-> log]

\* the row rewritten with the ProfitAmt and Status old_record came with
update_order_row_keeping_derived(rows, log, clock, sheet_row, new_values, actor, reason, old_record) ==
    LET full == [old_record EXCEPT
                    !.Client = new_values.Client,
                    !.Amount = new_values.Amount,
                    !.ProfitPct = new_values.ProfitPct]
    IN [rows |-> UpdateRow(rows, sheet_row, full),
        log |-> log_audit(log, clock, actor, "EDIT_ORDER", ORDERS_SHEET, sheet_row,
                          reason, Some(old_record), Some(full))]

\* update_order_row: the row rewritten from old_record and new_values with
\* ProfitAmt and Status recomputed, and the audit row
update_order_row(rows, log, clock, sheet_row, new_values, actor, reason, old_record) ==
    LET full == [old_record EXCEPT
                    !.Client = new_values.Client,
                    !.Amount = new_values.Amount,
                    !.ProfitPct = new_values.ProfitPct,
                    !.ProfitAmt = ProfitAmtOf(new_values.Amount, new_values.ProfitPct),
                    !.Status = LiveStatus(old_record.Timestamp, clock)]
    IN [rows |-> UpdateRow(rows, sheet_row, full),
        log |-> log_audit(log, clock, actor, "EDIT_ORDER", ORDERS_SHEET, sheet_row,
                          reason, Some(old_record), Some(full))]

delete_order_row(rows, log, clock, sheet_row, actor, reason, old_record) ==
    [rows |-> delete_rows(rows, sheet_row),
     log |-> log_audit(log, clock, actor, "DELETE_ORDER", ORDERS_SHEET, sheet_row,
                       reason, Some(old_record), None)]

\* update_client: no reason parameter; the audit row carries "-"
update_client(rows, log, clock, sheet_row, user, client, open_date, actor) ==
    [rows |-> UpdateRow(rows, sheet_row,
                        [rows[sheet_row - 1] EXCEPT !.User = user, !.Client = client,
                                                    !.OpenDate = open_date]),
     log |-> log_audit(log, clock, actor, "EDIT_CLIENT", CLIENTS_SHEET, sheet_row,
                       Dash, None,
                       Some([User |-> user, Client |-> client, OpenDate |-> open_date]))]

delete_client_row(rows, log, clock, sheet_row, actor, reason, old_record) ==
    [rows |-> delete_rows(rows, sheet_row),
     log |-> log_audit(log, clock, actor, "DELETE_CLIENT", CLIENTS_SHEET, sheet_row,
                       reason, Some(old_record), None)]

\* two admin sessions, both of the seeded admin account
AdminSessions == {"A", "B"}
ActorOf(s) == "Jerry"

\* the values the row widgets can take, and what can be typed into the forms
SheetRows == 2..(Len(SeedOrders) + 1)
Reasons == {<< >>, << 32 >>, << 111, 107 >>}
TypedClients == {"Zed"}

\* what a rendered form can hold when its Save button is pressed: the row as
\* shown, or with another Client typed in
TypedInto(form) ==
    IF form.ok THEN {form.v} \cup {[form.v EXCEPT !.Client = c] : c \in TypedClients}
    ELSE {}

\* a widget without a key whose default differs from the one it was last
\* rendered with is a new widget and yields its default
WidgetValue(typed, default, renderedDefault) ==
    IF default = renderedDefault THEN typed ELSE default

\* what one script run of a session renders in the two edit forms: the order
\* at sheet_row (cur) and the client at client_row_to_edit (rec)
RenderForms(a, all_df, cdf) ==
    [a EXCEPT !.cur = RowAt(all_df, a.sheet_row),
              !.rec = IF a.client_row_to_edit = 0 THEN None
                      ELSE RowAt(cdf, a.client_row_to_edit)]

\* the sheet row that holds the order entered at ts, or the client named id,
\* now; 0 when the row is gone
SheetRowOfOrder(rows, ts) ==
    IF \E i \in 1..Len(rows) : rows[i].Timestamp = ts
    THEN 1 + CHOOSE i \in 1..Len(rows) : rows[i].Timestamp = ts
    ELSE 0
SheetRowOfClient(rows, id) ==
    IF \E i \in 1..Len(rows) : rows[i].id = id
    THEN 1 + CHOOSE i \in 1..Len(rows) : rows[i].id = id
    ELSE 0

NoButton ==
    [op |-> "none", row |-> 0, reason |-> << >>, selected |-> 0, selectedAt |-> 0,
     target |-> 0, wrote |-> FALSE, audited |-> FALSE]

SheetStart ==
    /\ orders = SeedOrders
    /\ clients = SeedClients
    /\ audit = << >>
    /\ clientsCache = None
    /\ adm = [s \in AdminSessions |->
                [sheet_row |-> 2, cur |-> None, client_row_to_edit |-> 0, rec |-> None,
                 picks |-> 0]]
    /\ last = NoButton

\* a run of session s that handles no button: the page is rendered from
\* what the loaders return now
Rerun(s) ==
    LET cdf == load_clients_df(clientsCache, clients) IN
    /\ adm' = [adm EXCEPT ![s] = RenderForms(@, load_orders_with_rows(orders, now), cdf)]
    /\ adm' # adm
    /\ clientsCache' = Some(cdf)
    /\ UNCHANGED << orders, clients, audit, last >>
    /\ UNCHANGED << harnessVars, sessionVars, tableVars >>

\* "Sheet row to modify" set to r
SetSheetRow(s, r) ==
    LET cdf == load_clients_df(clientsCache, clients) IN
    /\ r # adm[s].sheet_row
    /\ adm[s].picks < MaxPicks
    /\ adm' = [adm EXCEPT ![s] = RenderForms([@ EXCEPT !.sheet_row = r, !.picks = @ + 1],
                                             load_orders_with_rows(orders, now), cdf)]
    /\ clientsCache' = Some(cdf)
    /\ UNCHANGED << orders, clients, audit, last >>
    /\ UNCHANGED << harnessVars, sessionVars, tableVars >>

\* "Load client row" with "Client Sheet row" at r
LoadClientRow(s, r) ==
    LET cdf == load_clients_df(clientsCache, clients) IN
    /\ r # adm[s].client_row_to_edit
    /\ adm[s].picks < MaxPicks
    /\ adm' = [adm EXCEPT ![s] = RenderForms([@ EXCEPT !.client_row_to_edit = r,
                                                       !.picks = @ + 1],
                                             load_orders_with_rows(orders, now), cdf)]
    /\ clientsCache' = Some(cdf)
    /\ UNCHANGED << orders, clients, audit, last >>
    /\ UNCHANGED << harnessVars, sessionVars, tableVars >>

\* the run after a write: st.rerun() renders from the sheets as written, the
\* clients frame loaded anew when its cache was cleared
AfterOrderWrite(s, newOrders) ==
    LET cdf == load_clients_df(clientsCache, clients) IN
    /\ adm' = [adm EXCEPT ![s] = RenderForms(@, load_orders_with_rows(newOrders, now), cdf)]
    /\ clientsCache' = Some(cdf)
AfterClientWrite(s, newClients) ==
    LET cdf == load_clients_rows(newClients) IN
    /\ adm' = [adm EXCEPT ![s] = RenderForms(@, load_orders_with_rows(orders, now), cdf)]
    /\ clientsCache' = Some(cdf)

\* "Save changes" in the order form of session s, the form holding typed
\* and reason.  The run loads the tab anew and takes the row that is at
\* sheet_row now.
SaveOrder(s, typed, reason) ==
    LET all_df  == load_orders_with_rows(orders, now)
        current == RowAt(all_df, adm[s].sheet_row)
        shown   == adm[s].cur.v
        cur     == current.v
        new_values ==
            [Client |-> WidgetValue(typed.Client, cur.Client, shown.Client),
             Amount |-> WidgetValue(typed.Amount, cur.Amount, shown.Amount),
             ProfitPct |-> WidgetValue(typed.ProfitPct, cur.ProfitPct, shown.ProfitPct)]
        done == update_order_row(orders, audit, now, adm[s].sheet_row, new_values,
                                 ActorOf(s), reason, cur)
        tried == [op |-> "EDIT_ORDER", row |-> adm[s].sheet_row, reason |-> reason,
                  selected |-> shown.Timestamp,
                  selectedAt |-> SheetRowOfOrder(orders, shown.Timestamp),
                  target |-> 0, wrote |-> FALSE, audited |-> FALSE]
    IN
    /\ adm[s].cur.ok
    /\ Len(audit) < MaxAudit
    /\ IF ~current.ok
       THEN \* "Enter a valid Sheet row number": the button is not rendered
            /\ last' = tried
            /\ AfterOrderWrite(s, orders)
            /\ UNCHANGED << orders, audit >>
       ELSE IF Strip(reason) = << >>
       THEN \* "Reason is required."
            /\ last' = tried
            /\ AfterOrderWrite(s, orders)
            /\ UNCHANGED << orders, audit >>
       ELSE /\ orders' = done.rows
            /\ audit' = done.log
            /\ last' = [tried EXCEPT !.target = cur.Timestamp, !.wrote = TRUE,
                                     !.audited = TRUE]
            /\ AfterOrderWrite(s, done.rows)
    /\ UNCHANGED clients
    /\ UNCHANGED << harnessVars, sessionVars, tableVars >>

\* "Delete this order" in the order form of session s
DeleteOrder(s, reason) ==
    LET all_df  == load_orders_with_rows(orders, now)
        current == RowAt(all_df, adm[s].sheet_row)
        shown   == adm[s].cur.v
        cur     == current.v
        done == delete_order_row(orders, audit, now, adm[s].sheet_row, ActorOf(s),
                                 reason, cur)
        tried == [op |-> "DELETE_ORDER", row |-> adm[s].sheet_row, reason |-> reason,
                  selected |-> shown.Timestamp,
                  selectedAt |-> SheetRowOfOrder(orders, shown.Timestamp),
                  target |-> 0, wrote |-> FALSE, audited |-> FALSE]
    IN
    /\ adm[s].cur.ok
    /\ Len(audit) < MaxAudit
    /\ IF ~current.ok
       THEN /\ last' = tried
            /\ AfterOrderWrite(s, orders)
            /\ UNCHANGED << orders, audit >>
       ELSE IF Strip(reason) = << >>
       THEN /\ last' = tried
            /\ AfterOrderWrite(s, orders)
            /\ UNCHANGED << orders, audit >>
       ELSE /\ orders' = done.rows
            /\ audit' = done.log
            /\ last' = [tried EXCEPT !.target = cur.Timestamp, !.wrote = TRUE,
                                     !.audited = TRUE]
            /\ AfterOrderWrite(s, done.rows)
    /\ UNCHANGED clients
    /\ UNCHANGED << harnessVars, sessionVars, tableVars >>

\* "Save client" in the client form of session s; reason is what the
\* "Reason for delete" box holds, which this button never reads
SaveClient(s, typed, reason) ==
    LET cdf   == load_clients_df(clientsCache, clients)
        row   == RowAt(cdf, adm[s].client_row_to_edit)
        shown == adm[s].rec.v
        rec   == row.v
        eu    == WidgetValue(typed.User, rec.User, shown.User)
        ec    == WidgetValue(typed.Client, rec.Client, shown.Client)
        ed    == rec.OpenDate
        done  == update_client(clients, audit, now, adm[s].client_row_to_edit, eu, ec, ed,
                               ActorOf(s))
        tried == [op |-> "EDIT_CLIENT", row |-> adm[s].client_row_to_edit, reason |-> reason,
                  selected |-> shown.id,
                  selectedAt |-> SheetRowOfClient(clients, shown.id),
                  target |-> 0, wrote |-> FALSE, audited |-> FALSE]
    IN
    /\ adm[s].rec.ok
    /\ Len(audit) < MaxAudit
    /\ IF ~row.ok
       THEN \* "Enter a valid client Sheet row."
            /\ last' = tried
            /\ adm' = [adm EXCEPT ![s] = RenderForms(@, load_orders_with_rows(orders, now), cdf)]
            /\ clientsCache' = Some(cdf)
            /\ UNCHANGED << clients, audit >>
       ELSE /\ clients' = done.rows
            /\ audit' = done.log
            /\ last' = [tried EXCEPT !.target = clients[adm[s].client_row_to_edit - 1].id,
                                     !.wrote = TRUE, !.audited = TRUE]
            /\ AfterClientWrite(s, done.rows)
    /\ UNCHANGED orders
    /\ UNCHANGED << harnessVars, sessionVars, tableVars >>

\* "Delete client" in the client form of session s
DeleteClient(s, reason) ==
    LET cdf   == load_clients_df(clientsCache, clients)
        row   == RowAt(cdf, adm[s].client_row_to_edit)
        shown == adm[s].rec.v
        rec   == row.v
        done  == delete_client_row(clients, audit, now, adm[s].client_row_to_edit,
                                   ActorOf(s), reason, rec)
        tried == [op |-> "DELETE_CLIENT", row |-> adm[s].client_row_to_edit, reason |-> reason,
                  selected |-> shown.id,
                  selectedAt |-> SheetRowOfClient(clients, shown.id),
                  target |-> 0, wrote |-> FALSE, audited |-> FALSE]
    IN
    /\ adm[s].rec.ok
    /\ Len(audit) < MaxAudit
    /\ IF ~row.ok \/ Strip(reason) = << >>
       THEN /\ last' = tried
            /\ adm' = [adm EXCEPT ![s] = RenderForms(@, load_orders_with_rows(orders, now), cdf)]
            /\ clientsCache' = Some(cdf)
            /\ UNCHANGED << clients, audit >>
       ELSE /\ clients' = done.rows
            /\ audit' = done.log
            /\ last' = [tried EXCEPT !.target = clients[adm[s].client_row_to_edit - 1].id,
                                     !.wrote = TRUE, !.audited = TRUE]
            /\ AfterClientWrite(s, done.rows)
    /\ UNCHANGED orders
    /\ UNCHANGED << harnessVars, sessionVars, tableVars >>

\* the ttl of st.cache_data runs out
ClientsCacheExpires ==
    /\ clientsCache.ok
    /\ clientsCache' = None
    /\ UNCHANGED << orders, clients, audit, adm, last >>
    /\ UNCHANGED << harnessVars, sessionVars, tableVars >>

SheetNext ==
    \/ \E s \in AdminSessions : Rerun(s)
    \/ \E s \in AdminSessions, r \in SheetRows : SetSheetRow(s, r)
    \/ \E s \in AdminSessions, r \in SheetRows : LoadClientRow(s, r)
    \/ \E s \in AdminSessions, reason \in Reasons :
          \E typed \in TypedInto(adm[s].cur) : SaveOrder(s, typed, reason)
    \/ \E s \in AdminSessions, reason \in Reasons : DeleteOrder(s, reason)
    \/ \E s \in AdminSessions, reason \in Reasons :
          \E typed \in TypedInto(adm[s].rec) : SaveClient(s, typed, reason)
    \/ \E s \in AdminSessions, reason \in Reasons : DeleteClient(s, reason)
    \/ ClientsCacheExpires

(***************************************************************************)
(* Header reconciliation (ensure_*_header, ensure_users_sheet_seed).       *)
(* A tab is the list of its rows as ws.get_all_values() sees them, a row   *)
(* the list of its cells without the trailing empty ones.                  *)
(***************************************************************************)
EXPECTED_HEADER ==
    << "Timestamp", "User", "Client", "Amount", "ProfitPct", "ProfitAmt", "Status" >>
ClientsHeader == << "User", "Client", "OpenDate" >>
UsersHeader   == << "Username", "DisplayName", "Role", "Password", "Active" >>
PresetsHeader == << "Name", "User", "Client", "Status", "FromDate", "ToDate" >>
AuditHeader   ==
    << "At", "Actor", "Action", "TargetSheet", "SheetRow", "Reason", "OldJSON", "NewJSON" >>

USERS_SHEET   == "Users"
PRESETS_SHEET == "FilterPresets"
AUDIT_SHEET   == "AuditLog"
Tabs == {ORDERS_SHEET, CLIENTS_SHEET, USERS_SHEET, PRESETS_SHEET, AUDIT_SHEET}

HeaderOf(tab) ==
    IF tab = ORDERS_SHEET THEN EXPECTED_HEADER
    ELSE IF tab = CLIENTS_SHEET THEN ClientsHeader
    ELSE IF tab = USERS_SHEET THEN UsersHeader
    ELSE IF tab = PRESETS_SHEET THEN PresetsHeader
    ELSE AuditHeader

\* ws.row_values(r): the cells of row r, << >> for a row the tab does not have
row_values(cells, r) == IF r <= Len(cells) THEN cells[r] ELSE << >>

\* ws.update("A<r>:..<r>", [values]): the first Len(values) cells of row r are
\* overwritten, the cells to their right and every other row stay
WriteRange(cells, r, values) ==
    LET old    == row_values(cells, r)
        newRow == values \o SubSeq(old, Len(values) + 1, Len(old))
    IN [i \in 1..(IF r > Len(cells) THEN r ELSE Len(cells)) |->
            IF i = r THEN newRow ELSE row_values(cells, i)] \o << >>

\* ws.append_row(values): a new row below the last one
append_row(cells, values) == Append(cells, values)

\* the header written below the rows instead of over row 1
ensure_header_appending(cells, header) ==
    IF cells = << >> \/ row_values(cells, 1) # header
    THEN append_row(cells, header)
    ELSE cells

\* ensure_orders_header, ensure_clients_header, ensure_presets_header,
\* ensure_audit_header: "if not values or ws.row_values(1) != header"
ensure_header(cells, header) ==
    IF cells = << >> \/ row_values(cells, 1) # header
    THEN WriteRange(cells, 1, header)
    ELSE cells

\* a row of the Users tab for a built-in account (Username and DisplayName
\* as the cell texts)
SeedRow(u) ==
    (IF u = SEED_USERS[1] THEN << "jerry", "Jerry" >> ELSE << "wolf1", "Wolf 1" >>)
        \o << u.Role, u.Password, u.Active >>

\* the built-in accounts written below the header on every call
ensure_users_sheet_reseeding(cells) ==
    LET headed == WriteRange(cells, 1, UsersHeader) IN
    [i \in 1..(IF Len(headed) > 1 + Len(SEED_USERS) THEN Len(headed)
               ELSE 1 + Len(SEED_USERS)) |->
        IF i = 1 THEN headed[1]
        ELSE IF i <= 1 + Len(SEED_USERS) THEN SeedRow(SEED_USERS[i - 1])
        ELSE headed[i]] \o << >>

\* ensure_users_sheet_seed: an empty tab gets the header and the built-in
\* accounts below it, any other tab only the header when row 1 differs
ensure_users_sheet_seed(cells) ==
    IF cells = << >>
    THEN << UsersHeader >> \o [i \in 1..Len(SEED_USERS) |-> SeedRow(SEED_USERS[i])]
    ELSE IF row_values(cells, 1) # UsersHeader
    THEN WriteRange(cells, 1, UsersHeader)
    ELSE cells

Reconcile(tab, cells) ==
    IF tab = USERS_SHEET THEN ensure_users_sheet_seed(cells)
    ELSE ensure_header(cells, HeaderOf(tab))

\* the ws.update calls one call of a tab's reconciliation issues
ReconcileWrites(tab, cells) ==
    IF cells = << >> THEN (IF tab = USERS_SHEET THEN 2 ELSE 1)
    ELSE IF row_values(cells, 1) # HeaderOf(tab) THEN 1
    ELSE 0

\* what row 1 of a tab can hold before the application touches it
FirstRows(header) ==
    {<< >>,                                      \* blank
     header,                                     \* matching
     SubSeq(header, 1, Len(header) - 1),         \* shorter
     header \o << "Extra" >>,                    \* longer
     [header EXCEPT ![1] = "Other"],             \* different
     << "" >> \o SubSeq(header, 2, Len(header))} \* first cell blank

\* the rows below row 1
DataRowsBelow == [i \in 1..MaxDataRows |-> << "v", "w" >>]
StartContents(header) ==
    {<< >>} \cup
    ({<< first >> \o SubSeq(DataRowsBelow, 1, n) :
        first \in FirstRows(header), n \in 0..MaxDataRows} \ {<< << >> >>})

\* the FilterPresets tab and the prepared order writes when the sessions start
TablesStart ==
    /\ presets = << >>
    /\ pend = [s \in AdminSessions |-> None]

\* the Users tab after the admin screens have written to it: the built-in
\* accounts as seeded, with the role, password or Active cell of one of them
\* changed by "Update user", or with a row added by "Create user"
SeededRows == [i \in 1..Len(SEED_USERS) |-> SeedRow(SEED_USERS[i])]
UsersContents ==
    {<< UsersHeader >> \o rows :
        rows \in {SeededRows,
                  [SeededRows EXCEPT ![1][5] = "FALSE"],
                  [SeededRows EXCEPT ![1][3] = "team"],
                  [SeededRows EXCEPT ![2][3] = "admin", ![2][4] = "new"],
                  SeededRows \o << << "z", "Z", "team", "pw", "TRUE" >> >>}}

HdIdle ==
    [phase |-> "idle", tab |-> "", start |-> << >>, once |-> << >>, twice |-> << >>,
     writes |-> 0]

HdStart ==
    \E tab \in Tabs :
      \E cells \in StartContents(HeaderOf(tab))
                      \cup (IF tab = USERS_SHEET THEN UsersContents ELSE {}) :
        hd = [HdIdle EXCEPT !.phase = "start", !.tab = tab, !.start = cells]

\* the first call of the tab's reconciliation
HdFirstCall ==
    /\ hd.phase = "start"
    /\ hd' = [hd EXCEPT !.phase = "once", !.once = Reconcile(hd.tab, hd.start),
                        !.writes = ReconcileWrites(hd.tab, hd.start)]
    /\ UNCHANGED << tk, sessionVars, sheetVars, presets, pend >>

\* the second call, on what the first left
HdSecondCall ==
    /\ hd.phase = "once"
    /\ hd' = [hd EXCEPT !.phase = "twice", !.twice = Reconcile(hd.tab, hd.once),
                        !.writes = ReconcileWrites(hd.tab, hd.once)]
    /\ UNCHANGED << tk, sessionVars, sheetVars, presets, pend >>

HdNext == HdFirstCall \/ HdSecondCall

(***************************************************************************)
(* Orders: "Submit Order" of team_reporter, and "Save changes" of          *)
(* admin_tools as the two calls to the sheet it makes: the load of the     *)
(* run (load_orders_with_rows) and the write of update_order_row.  Other   *)
(* sessions' calls can come in between.                                    *)
(***************************************************************************)
\* the team member who submits orders
TeamUser == "Wolf 1"

\* Amount and Profit % as they can be typed: 200.00 at 10%, 0.50 at 1%,
\* 1.50 at 1%
OrderValues == {<< 20000, 100 >>, << 50, 10 >>, << 150, 10 >>}

\* what the order form can hold when "Save changes" is pressed: the row as
\* shown, or with another Amount and Profit %
TypedIntoOrder(form) ==
    IF form.ok
    THEN {form.v} \cup {[form.v EXCEPT !.Amount = v[1], !.ProfitPct = v[2]] : v \in OrderValues}
    ELSE {}

\* my_clients of team_reporter: the clients of the user in load_clients_df()
my_clients(cdf, display_name) ==
    {cdf[i].row.Client : i \in {j \in 1..Len(cdf) : cdf[j].row.User = display_name}}

\* the order row "Submit Order" builds: ProfitAmt computed, Status "In Process"
new_row(clock, display_name, client, amount, profit_pct) ==
    [Timestamp |-> clock, User |-> display_name, Client |-> client, Amount |-> amount,
     ProfitPct |-> profit_pct, ProfitAmt |-> ProfitAmtOf(amount, profit_pct),
     Status |-> "In Process"]

\* the row put in above the first data row instead of below the last one
append_order_row_inserting(rows, row_list) == << row_list >> \o rows

\* append_order_row: ws.append_row(row_list)
append_order_row(rows, row_list) == Append(rows, row_list)

\* the stored row at a sheet row, blank when the tab ends above it
StoredAt(rows, sheet_row) ==
    IF sheet_row - 1 \in 1..Len(rows) THEN rows[sheet_row - 1] ELSE BlankOrder

\* "Submit Order" in the Team view
SubmitOrder(client, amount, profit_pct) ==
    LET cdf == load_clients_df(clientsCache, clients)
        row == new_row(now, TeamUser, client, amount, profit_pct)
    IN
    /\ Len(orders) < OrdersAtStart + MaxSubmits
    /\ client \in my_clients(cdf, TeamUser) \cup {"(choose)"}
    /\ IF client = "(choose)"
       THEN \* "Please choose a client."
            /\ last' = [op |-> "SUBMIT_ORDER", row |-> 0, wrote |-> FALSE,
                        audited |-> FALSE]
            /\ UNCHANGED orders
       ELSE /\ orders' = append_order_row(orders, row)
            /\ last' = [op |-> "SUBMIT_ORDER", row |-> Len(orders) + 2, wrote |-> TRUE,
                        audited |-> FALSE, before |-> orders, new |-> row]
    /\ clientsCache' = Some(cdf)
    /\ UNCHANGED << clients, audit, adm, presets, pend, hd >>
    /\ UNCHANGED << harnessVars, sessionVars >>

\* the run of "Save changes" up to its call of update_order_row: the tab is
\* loaded, the row at sheet_row taken, the widgets read
BeginSaveOrder(s, typed, reason) ==
    LET all_df  == load_orders_with_rows(orders, now)
        current == RowAt(all_df, adm[s].sheet_row)
        shown   == adm[s].cur.v
        cur     == current.v
        new_values ==
            [Client |-> WidgetValue(typed.Client, cur.Client, shown.Client),
             Amount |-> WidgetValue(typed.Amount, cur.Amount, shown.Amount),
             ProfitPct |-> WidgetValue(typed.ProfitPct, cur.ProfitPct, shown.ProfitPct)]
    IN
    /\ adm[s].cur.ok
    /\ ~pend[s].ok
    /\ IF ~current.ok \/ Strip(reason) = << >>
       THEN \* no button rendered, or "Reason is required."
            /\ last' = [op |-> "EDIT_ORDER", row |-> adm[s].sheet_row, by |-> s,
                        reason |-> reason, present |-> current.ok, wrote |-> FALSE,
                        audited |-> FALSE]
            /\ AfterOrderWrite(s, orders)
            /\ UNCHANGED pend
       ELSE /\ pend' = [pend EXCEPT ![s] =
                          Some([sheet_row |-> adm[s].sheet_row, new_values |-> new_values,
                                reason |-> reason, old_record |-> cur, shown |-> shown,
                                typed |-> typed,
                                storedAtLoad |-> StoredAt(orders, adm[s].sheet_row),
                                loadClock |-> now, logAtLoad |-> Len(audit)])]
            /\ UNCHANGED << adm, clientsCache, last >>
    /\ UNCHANGED << orders, clients, audit, presets, hd >>
    /\ UNCHANGED << harnessVars, sessionVars >>

\* update_order_row called with what the run prepared, then
\* load_orders_df_cached.clear() and st.rerun()
CommitSaveOrder(s) ==
    LET w    == pend[s].v
        done == update_order_row(orders, audit, now, w.sheet_row, w.new_values,
                                 ActorOf(s), w.reason, w.old_record)
    IN
    /\ pend[s].ok
    /\ Len(audit) < MaxAudit
    /\ orders' = done.rows
    /\ audit' = done.log
    /\ pend' = [pend EXCEPT ![s] = None]
    /\ last' = [op |-> "EDIT_ORDER", row |-> w.sheet_row, by |-> s, reason |-> w.reason,
                present |-> TRUE, wrote |-> TRUE, audited |-> TRUE,
                appended |-> Len(done.log) - Len(audit),
                shown |-> w.shown, typed |-> w.typed, values |-> w.new_values,
                loaded |-> w.old_record,
                storedAtLoad |-> w.storedAtLoad, loadClock |-> w.loadClock,
                logAtLoad |-> w.logAtLoad, logAtWrite |-> Len(audit),
                before |-> StoredAt(orders, w.sheet_row),
                after |-> StoredAt(done.rows, w.sheet_row)]
    /\ AfterOrderWrite(s, done.rows)
    /\ UNCHANGED << clients, presets, hd >>
    /\ UNCHANGED << harnessVars, sessionVars >>

\* what "Client" of the order form is set to in the orders model
SubmitClients == {"(choose)", "Acme"}

\* the reasons typed in the orders model: none, or "ok"
OrderReasons == {<< >>, << 111, 107 >>}

\* the clock passes the age at which an order counts as completed
StatusStep == 120 * 3600 + 1
Wait ==
    /\ now < MaxWaits * StatusStep
    /\ now' = now + StatusStep
    /\ UNCHANGED << users, sessTok, flag, cookie, pending, req, awaiting, edits,
                    tokenTable >>
    /\ UNCHANGED << harnessVars, sheetVars, tableVars >>

\* the orders model: one admin session, the team member and the clock
OrderSessions == {"A"}
OrdersNext ==
    \/ \E s \in OrderSessions : ~pend[s].ok /\ Rerun(s)
    \/ \E s \in OrderSessions, r \in SheetRows : ~pend[s].ok /\ SetSheetRow(s, r)
    \/ \E s \in OrderSessions, reason \in OrderReasons :
          \E typed \in TypedIntoOrder(adm[s].cur) : BeginSaveOrder(s, typed, reason)
    \/ \E s \in OrderSessions : CommitSaveOrder(s)
    \/ \E s \in OrderSessions, reason \in OrderReasons : ~pend[s].ok /\ DeleteOrder(s, reason)
    \/ \E client \in SubmitClients, v \in OrderValues : SubmitOrder(client, v[1], v[2])
    \/ Wait

\* the race model: two admin sessions whose calls to the sheet interleave
RaceNext ==
    \/ \E s \in AdminSessions : ~pend[s].ok /\ Rerun(s)
    \/ \E s \in AdminSessions, reason \in OrderReasons :
          \E typed \in TypedIntoOrder(adm[s].cur) : BeginSaveOrder(s, typed, reason)
    \/ \E s \in AdminSessions : CommitSaveOrder(s)
    \/ \E s \in AdminSessions, reason \in OrderReasons : ~pend[s].ok /\ DeleteOrder(s, reason)

(***************************************************************************)
(* The other admin screens that write: "Add client (global)", the presets  *)
(* tab and the users tab.  With the order and client forms above they are  *)
(* the mutating actions of admin_tools.                                    *)
(***************************************************************************)
\* str(sheet_row) of the audit row when the caller passes "-" for the row
NoRow == 0

\* what the forms of these screens are filled with: the user a client is
\* added for, the client name ("" stands for a blank name), the preset
\* names ("" and "p"), the usernames ("", "jerry", "z") and a display name
AddUsers == {"Wolf 1"}
AddClientNames == {"", "Zed"}
PresetNames == {<< >>, << 112 >>}
NewUsernames == {<< >>, << 106, 101, 114, 114, 121 >>, << 122 >>}
NewDisplayName == << 90 >>
RoleCells == {"team", "admin"}
ActiveCells == {"TRUE", "FALSE"}

\* the id the model gives an added Clients row
NextClientId(rows) ==
    1 + Len(SeedClients) + Cardinality({i \in 1..Len(rows) : rows[i].id > Len(SeedClients)})

\* add_client: nothing for a blank name, else one row appended; no audit row
add_client(rows, user, client_name, open_date) ==
    IF client_name = "" THEN rows
    ELSE Append(rows, [id |-> NextClientId(rows), User |-> user, Client |-> client_name,
                       OpenDate |-> open_date])

\* save_preset: one row appended, and the audit row
save_preset(rows, log, clock, name, user, client, status, dfrom, dto, actor) ==
    [rows |-> Append(rows, [Name |-> name, User |-> user, Client |-> client,
                            Status |-> status, FromDate |-> dfrom, ToDate |-> dto]),
     log |-> log_audit(log, clock, actor, "SAVE_PRESET", PRESETS_SHEET, NoRow, Dash,
                       None, Some([Name |-> name]))]

\* delete_preset_by_name: the last row with that name removed, and the audit
\* row; nothing when no row has the name
delete_preset_by_name(rows, log, clock, name, actor) ==
    LET hits == {i \in 1..Len(rows) : rows[i].Name = name} IN
    IF hits = {} THEN [rows |-> rows, log |-> log]
    ELSE LET i == CHOOSE k \in hits : \A j \in hits : j <= k IN
         [rows |-> delete_rows(rows, i + 1),
          log |-> log_audit(log, clock, actor, "DELETE_PRESET", PRESETS_SHEET, i + 1, Dash,
                            Some([Name |-> name]), None)]

\* "Add client (global)" of the clients tab
AddClientGlobal(s, chosen_user, new_client) ==
    LET rows == add_client(clients, chosen_user, new_client, "2024-02-01") IN
    /\ Len(clients) < Len(SeedClients) + MaxAdded
    /\ clients' = rows
    /\ last' = [op |-> "ADD_CLIENT", row |-> Len(rows) + 1, wrote |-> rows # clients,
                audited |-> FALSE]
    /\ AfterClientWrite(s, rows)
    /\ UNCHANGED << orders, audit >>
    /\ UNCHANGED << harnessVars, sessionVars, tableVars >>

\* "Save preset" of the presets tab
SavePreset(s, name) ==
    LET done == save_preset(presets, audit, now, name, "", "", "", "", "", ActorOf(s)) IN
    /\ Len(presets) < MaxPresets
    /\ Len(audit) < MaxAudit
    /\ IF Strip(name) = << >>
       THEN \* "Give the preset a name."
            /\ last' = [op |-> "SAVE_PRESET", row |-> NoRow, wrote |-> FALSE,
                        audited |-> FALSE]
            /\ UNCHANGED << presets, audit >>
       ELSE /\ presets' = done.rows
            /\ audit' = done.log
            /\ last' = [op |-> "SAVE_PRESET", row |-> NoRow, wrote |-> TRUE,
                        audited |-> TRUE]
    /\ UNCHANGED << orders, clients, clientsCache, adm, pend, hd >>
    /\ UNCHANGED << harnessVars, sessionVars >>

\* "Delete preset" of the presets tab, pname picked from the listed names
DeletePreset(s, pname) ==
    LET done == delete_preset_by_name(presets, audit, now, pname, ActorOf(s)) IN
    /\ Len(audit) < MaxAudit
    /\ \E i \in 1..Len(presets) : presets[i].Name = pname
    /\ presets' = done.rows
    /\ audit' = done.log
    /\ last' = [op |-> "DELETE_PRESET", row |-> audit'[Len(audit')].SheetRow,
                name |-> pname, wrote |-> TRUE, audited |-> TRUE]
    /\ UNCHANGED << orders, clients, clientsCache, adm, pend, hd >>
    /\ UNCHANGED << harnessVars, sessionVars >>

\* "Create user" of the users tab
CreateUser(s, new_un, new_dn, new_role, pw_val) ==
    /\ Len(users) < Len(SEED_USERS) + MaxAdded
    /\ Len(audit) < MaxAudit
    /\ IF new_un = << >> \/ new_dn = << >>
          \/ (\E i \in 1..Len(users) : users[i].Username = new_un)
       THEN \* "Username and Display name required." / "Username already exists."
            /\ last' = [op |-> "ADD_USER", row |-> NoRow, wrote |-> FALSE,
                        audited |-> FALSE]
            /\ UNCHANGED << users, audit >>
       ELSE /\ users' = Append(users, [Username |-> new_un, DisplayName |-> new_dn,
                                       Role |-> new_role, Password |-> pw_val,
                                       Active |-> "TRUE"])
            /\ audit' = log_audit(audit, now, ActorOf(s), "ADD_USER", USERS_SHEET, NoRow,
                                  Dash, None, Some([Username |-> new_un]))
            /\ last' = [op |-> "ADD_USER", row |-> NoRow, wrote |-> TRUE,
                        audited |-> TRUE]
    /\ UNCHANGED << sessTok, flag, cookie, pending, now, req, awaiting, edits, tokenTable >>
    /\ UNCHANGED << orders, clients, clientsCache, adm >>
    /\ UNCHANGED << harnessVars, tableVars >>

\* "Update user" of the users tab, the picked user at row i + 1; the
\* password field left blank
UpdateUser(s, i, new_role2, active2) ==
    /\ Len(audit) < MaxAudit
    /\ i \in 1..Len(users)
    /\ users' = [users EXCEPT ![i].Role = new_role2, ![i].Active = active2]
    /\ audit' = log_audit(audit, now, ActorOf(s), "UPDATE_USER", USERS_SHEET, i + 1, Dash,
                          None, Some([Username |-> users[i].Username]))
    /\ last' = [op |-> "UPDATE_USER", row |-> i + 1, wrote |-> TRUE, audited |-> TRUE]
    /\ UNCHANGED << sessTok, flag, cookie, pending, now, req, awaiting, edits, tokenTable >>
    /\ UNCHANGED << orders, clients, clientsCache, adm >>
    /\ UNCHANGED << harnessVars, tableVars >>

\* the run of "Create user" up to its ws.append_row: the Users tab is loaded
\* (udf), the fields and the uniqueness of the username checked against it
BeginCreateUser(s, new_un, new_dn, new_role, pw_val) ==
    LET udf == users IN
    /\ ~pend[s].ok
    /\ IF new_un = << >> \/ new_dn = << >>
          \/ (\E i \in 1..Len(udf) : udf[i].Username = new_un)
       THEN \* "Username and Display name required." / "Username already exists."
            /\ last' = [op |-> "ADD_USER", row |-> NoRow, by |-> s, username |-> new_un,
                        existed |-> \E i \in 1..Len(users) : users[i].Username = new_un,
                        wrote |-> FALSE, audited |-> FALSE]
            /\ UNCHANGED pend
       ELSE /\ pend' = [pend EXCEPT ![s] =
                          Some([Username |-> new_un, DisplayName |-> new_dn,
                                Role |-> new_role, Password |-> pw_val,
                                Active |-> "TRUE"])]
            /\ UNCHANGED last
    /\ UNCHANGED << orders, clients, audit, clientsCache, adm, presets, hd >>
    /\ UNCHANGED << harnessVars, sessionVars >>

\* ws.append_row of the new user and its audit row, then st.rerun()
CommitCreateUser(s) ==
    LET row == pend[s].v IN
    /\ pend[s].ok
    /\ Len(users) < Len(SEED_USERS) + MaxCreated
    /\ Len(audit) < MaxAudit
    /\ users' = Append(users, row)
    /\ audit' = log_audit(audit, now, ActorOf(s), "ADD_USER", USERS_SHEET, NoRow, Dash,
                          None, Some([Username |-> row.Username]))
    /\ pend' = [pend EXCEPT ![s] = None]
    /\ last' = [op |-> "ADD_USER", row |-> NoRow, by |-> s, username |-> row.Username,
                existed |-> \E i \in 1..Len(users) : users[i].Username = row.Username,
                wrote |-> TRUE, audited |-> TRUE]
    /\ UNCHANGED << sessTok, flag, cookie, pending, now, req, awaiting, edits, tokenTable >>
    /\ UNCHANGED << orders, clients, clientsCache, adm, presets, hd >>
    /\ UNCHANGED harnessVars

\* the users tab of two admin sessions whose calls to the sheet interleave
UsersNext ==
    \/ \E s \in AdminSessions, un \in NewUsernames, role \in RoleCells :
          BeginCreateUser(s, un, NewDisplayName, role, "pw")
    \/ \E s \in AdminSessions : CommitCreateUser(s)
    \/ \E s \in AdminSessions, i \in 1..Len(users), role \in RoleCells, a \in ActiveCells :
          ~pend[s].ok /\ UpdateUser(s, i, role, a)

(***************************************************************************)
(* Remote calls that fail.  A call to the sheet can raise (no retry); the  *)
(* exception leaves the function and the button handler at that call.      *)
(***************************************************************************)
\* the audit row written before the tab
CallsLogFirst(action) == << "log_audit", "write" >>

\* the calls to the sheet that update_order_row, delete_order_row,
\* update_client and delete_client_row make after opening the tab, in order
CallsOf(action) == << "write", "log_audit" >>

\* failAt = 0: no call raises; failAt = k: the k-th call raises
FailPoints == 0..2

\* what has been done when the function is left: the calls before the
\* failing one have had their effect (done is the effect of all of them)
Outcome(calls, failAt, rows, log, done) ==
    LET ran(c) == \E k \in 1..Len(calls) : calls[k] = c /\ (failAt = 0 \/ k < failAt) IN
    [rows |-> IF ran("write") THEN done.rows ELSE rows,
     log |-> IF ran("log_audit") THEN done.log ELSE log,
     applied |-> ran("write"),
     logged |-> ran("log_audit"),
     returned |-> failAt = 0 \/ failAt > Len(calls)]

\* "Save changes" of the order form with a call that can raise
FailingSaveOrder(s, typed, reason, failAt) ==
    LET all_df  == load_orders_with_rows(orders, now)
        current == RowAt(all_df, adm[s].sheet_row)
        shown   == adm[s].cur.v
        cur     == current.v
        new_values ==
            [Client |-> WidgetValue(typed.Client, cur.Client, shown.Client),
             Amount |-> WidgetValue(typed.Amount, cur.Amount, shown.Amount),
             ProfitPct |-> WidgetValue(typed.ProfitPct, cur.ProfitPct, shown.ProfitPct)]
        done == update_order_row(orders, audit, now, adm[s].sheet_row, new_values,
                                 ActorOf(s), reason, cur)
        out  == Outcome(CallsOf("EDIT_ORDER"), failAt, orders, audit, done)
    IN
    /\ adm[s].cur.ok
    /\ current.ok
    /\ Strip(reason) # << >>
    /\ Len(audit) < MaxAudit
    /\ orders' = out.rows
    /\ audit' = out.log
    /\ last' = [op |-> "EDIT_ORDER", row |-> adm[s].sheet_row, failAt |-> failAt,
                applied |-> out.applied, logged |-> out.logged,
                wrote |-> orders' # orders, audited |-> audit' # audit]
    /\ IF out.returned
       THEN AfterOrderWrite(s, out.rows)
       ELSE UNCHANGED << adm, clientsCache >>
    /\ UNCHANGED clients
    /\ UNCHANGED << harnessVars, sessionVars, tableVars >>

\* "Delete client" of the client form with a call that can raise;
\* load_clients_df.clear() and st.rerun() follow only when
\* delete_client_row returns
FailingDeleteClient(s, reason, failAt) ==
    LET cdf   == load_clients_df(clientsCache, clients)
        row   == RowAt(cdf, adm[s].client_row_to_edit)
        done  == delete_client_row(clients, audit, now, adm[s].client_row_to_edit,
                                   ActorOf(s), reason, row.v)
        out   == Outcome(CallsOf("DELETE_CLIENT"), failAt, clients, audit, done)
    IN
    /\ adm[s].rec.ok
    /\ row.ok
    /\ Strip(reason) # << >>
    /\ Len(audit) < MaxAudit
    /\ clients' = out.rows
    /\ audit' = out.log
    /\ last' = [op |-> "DELETE_CLIENT", row |-> adm[s].client_row_to_edit,
                failAt |-> failAt, applied |-> out.applied, logged |-> out.logged,
                wrote |-> clients' # clients, audited |-> audit' # audit]
    /\ IF out.returned
       THEN AfterClientWrite(s, out.rows)
       ELSE /\ clientsCache' = Some(cdf)
            /\ UNCHANGED adm
    /\ UNCHANGED orders
    /\ UNCHANGED << harnessVars, sessionVars, tableVars >>

\* one admin session whose calls to the sheet can raise
FailNext ==
    \/ \E s \in OrderSessions : Rerun(s)
    \/ \E s \in OrderSessions, r \in SheetRows : SetSheetRow(s, r)
    \/ \E s \in OrderSessions, r \in SheetRows : LoadClientRow(s, r)
    \/ \E s \in OrderSessions, reason \in OrderReasons, failAt \in FailPoints :
          \E typed \in TypedInto(adm[s].cur) : FailingSaveOrder(s, typed, reason, failAt)
    \/ \E s \in OrderSessions, reason \in OrderReasons, failAt \in FailPoints :
          FailingDeleteClient(s, reason, failAt)
    \/ ClientsCacheExpires

\* the admin screens of one session
AuditNext ==
    \/ \E s \in OrderSessions : Rerun(s)
    \/ \E s \in OrderSessions, r \in SheetRows : SetSheetRow(s, r)
    \/ \E s \in OrderSessions, r \in SheetRows : LoadClientRow(s, r)
    \/ \E s \in OrderSessions, reason \in OrderReasons :
          \E typed \in TypedInto(adm[s].cur) : SaveOrder(s, typed, reason)
    \/ \E s \in OrderSessions, reason \in OrderReasons : DeleteOrder(s, reason)
    \/ \E s \in OrderSessions, reason \in OrderReasons :
          \E typed \in TypedInto(adm[s].rec) : SaveClient(s, typed, reason)
    \/ \E s \in OrderSessions, reason \in OrderReasons : DeleteClient(s, reason)
    \/ \E s \in OrderSessions, u \in AddUsers, c \in AddClientNames : AddClientGlobal(s, u, c)
    \/ \E s \in OrderSessions, name \in PresetNames : SavePreset(s, name)
    \/ \E s \in OrderSessions, pname \in PresetNames : DeletePreset(s, pname)
    \/ \E s \in OrderSessions, un \in NewUsernames, role \in RoleCells :
          CreateUser(s, un, NewDisplayName, role, "pw")
    \/ \E s \in OrderSessions, i \in 1..Len(users), role \in RoleCells, a \in ActiveCells :
          UpdateUser(s, i, role, a)

(***************************************************************************)
(* Token harness: issue_token and verify_token as pure functions of        *)
(* (username, name, clock), with one bit of the encoded token flipped in   *)
(* between.                                                                *)
(***************************************************************************)
TokenAlphabet == {97, Pipe}      \* 'a' and the separator itself

TokenNames ==
    UNION {{f \o << >> : f \in [1..n -> TokenAlphabet]} : n \in 1..MaxNameLen}

IssueTimes == {7}

ExpiryOf(issued) == issued + COOKIE_EXPIRY_DAYS * 86400

\* the clock values a token issued at `issued` is verified at; a mutated
\* token is verified while the token it was made from is still valid
VerifyTimes(issued, mutated) ==
    IF mutated THEN {issued}
    ELSE {issued, ExpiryOf(issued) - 1, ExpiryOf(issued), ExpiryOf(issued) + 1}

FlipBit(c, b) == IF (c \div (2 ^ b)) % 2 = 1 THEN c - 2 ^ b ELSE c + 2 ^ b

TkStart ==
    tk = [phase |-> "start", username |-> << >>, name |-> << >>, issued |-> 0,
          token |-> << >>, mutated |-> FALSE, now |-> 0, result |-> None]

TkIssue(u, n, t) ==
    /\ tk.phase = "start"
    /\ tk' = [tk EXCEPT !.phase = "issued", !.username = u, !.name = n,
                        !.issued = t, !.token = issue_token(u, n, t)]
    /\ UNCHANGED << sessionVars, sheetVars, tableVars >>

TkMutate(i, b) ==
    /\ tk.phase = "issued"
    /\ ~tk.mutated
    /\ tk' = [tk EXCEPT !.mutated = TRUE, !.token[i] = FlipBit(tk.token[i], b)]
    /\ UNCHANGED << sessionVars, sheetVars, tableVars >>

TkVerify(clock) ==
    /\ tk.phase = "issued"
    /\ tk' = [tk EXCEPT !.phase = "verified", !.now = clock,
                        !.result = verify_token(tk.token, clock)]
    /\ UNCHANGED << sessionVars, sheetVars, tableVars >>

TkNext ==
    \/ \E u \in TokenNames, n \in TokenNames, t \in IssueTimes : TkIssue(u, n, t)
    \/ \E i \in 1..Len(tk.token), b \in 0..7 : TkMutate(i, b)
    \/ \E clock \in VerifyTimes(tk.issued, tk.mutated) : TkVerify(clock)

\* the harness calls issue_token and verify_token themselves, not the table
TkInit ==
    /\ TkStart
    /\ SessionStart
    /\ SheetStart
    /\ cookie = << >>
    /\ tokenTable = [issue |-> << >>, verify |-> << >>]
    /\ TablesStart
    /\ hd = HdIdle

SpecToken == TkInit /\ [][TkNext]_vars

SheetInit ==
    /\ SheetStart
    /\ SessionStart
    /\ TkStart
    /\ cookie = << >>
    /\ tokenTable = [issue |-> << >>, verify |-> << >>]
    /\ TablesStart
    /\ hd = HdIdle

SpecSheets == SheetInit /\ [][SheetNext]_vars

Init ==
    /\ SessionStart
    /\ SheetStart
    /\ cookie = << >>
    /\ TkStart
    /\ tokenTable = [issue |-> IssueTable, verify |-> VerifyTable]
    /\ TablesStart
    /\ hd = HdIdle

Next == SessionNext

Spec == Init /\ [][Next]_vars

\* The session with a browser that holds any cookie when the session starts
\* and is otherwise left alone.  Streamlit runs the script again on every
\* component update and the browser executes the cookie writes it is handed,
\* so runs with a readable cookie store and cookie writes keep happening.
LoginTimeCookies ==
    {<< >>} \cup ForeignCookies
        \cup {issue_token(SEED_USERS[i].Username, SEED_USERS[i].DisplayName, 0) :
                  i \in 1..Len(SEED_USERS)}

LiveInit ==
    /\ SessionStart
    /\ SheetStart
    /\ cookie \in LoginTimeCookies
    /\ TkStart
    /\ tokenTable = [issue |-> IssueTable, verify |-> VerifyTable]
    /\ TablesStart
    /\ hd = HdIdle

ServeReadable == ServeRequest(NoClick, Known(cookie))

LiveNext ==
    \/ \E click \in Clicks, cookies \in {Unknown, Known(cookie)} :
          ServeRequest(click, cookies)
    \/ ApplyCookieWrite
    \/ \E i \in 1..Len(users), role \in {"admin", "team"}, active \in {"TRUE", "FALSE"} :
          AdminUpdateUser(i, role, active)

SpecLive ==
    /\ LiveInit
    /\ [][LiveNext]_vars
    /\ WF_vars(ServeReadable)
    /\ WF_vars(ApplyCookieWrite)


OrdersInit ==
    /\ orders = SubSeq(SeedOrders, 1, OrdersAtStart)
    /\ clients = SeedClients
    /\ audit = << >>
    /\ clientsCache = None
    /\ adm = [s \in AdminSessions |->
                [sheet_row |-> 2, cur |-> None, client_row_to_edit |-> 0, rec |-> None,
                 picks |-> 0]]
    /\ last = NoButton
    /\ TablesStart
    /\ hd = HdIdle
    /\ SessionStart
    /\ TkStart
    /\ cookie = << >>
    /\ tokenTable = [issue |-> << >>, verify |-> << >>]

SpecOrders == OrdersInit /\ [][OrdersNext]_vars
SpecRace == OrdersInit /\ [][RaceNext]_vars
SpecAudit == SheetInit /\ [][AuditNext]_vars
SpecUsers == SheetInit /\ [][UsersNext]_vars
SpecFail == SheetInit /\ [][FailNext]_vars

HdInit ==
    /\ HdStart
    /\ TablesStart
    /\ SessionStart
    /\ SheetStart
    /\ TkStart
    /\ cookie = << >>
    /\ tokenTable = [issue |-> << >>, verify |-> << >>]

SpecHeader == HdInit /\ [][HdNext]_vars

(***************************************************************************)
(* Properties of the session model.                                        *)
(***************************************************************************)
Dispatched == req.view \in {"team", "admin"}
Served == req.view # "none"
NoValidToken == req.sessUser = << >> /\ req.cookieUser = << >>
LoggedIn ==
    /\ sessTok # << >>
    /\ UserOf(sessTok, now) # << >>
    /\ Servable(UserOf(sessTok, now))

\* C1: a user whose Users row is missing or inactive at the time of the
\* request is never dispatched to the Team or Admin view, whichever store the
\* identity came from; the process-session token (if any) is discarded and a
\* cookie clear is attempted.
C1_InactiveBlockedSessionDiscarded ==
    /\ Dispatched => req.servable
    /\ (req.source # "none" /\ ~req.servable) =>
          (~Dispatched /\ req.cleared /\ ~req.kept)

\* C1, as the router does it: the user is never dispatched and a cookie clear
\* is attempted; the process-session token is discarded when the identity
\* came from it (a token that no longer verifies stays where it is when the
\* identity came from the cookie).
C1_InactiveBlocked ==
    /\ Dispatched => req.servable
    /\ (req.source # "none" /\ ~req.servable) =>
          (~Dispatched /\ req.cleared /\ (req.source = "session" => ~req.kept))

C1_Witness ==
    /\ req.source = "session"
    /\ ~req.servable
    /\ req.view = "inactive"
    /\ req.cleared
    /\ sessTok = << >>

\* C2: after a logout, login stays blocked and no view is dispatched until a
\* cookie read has confirmed that the cookie is absent, whatever the cookie
\* reads in between return.
C2_BlockedUntilAbsenceConfirmed ==
    awaiting => (req.view \notin {"login", "inactive", "team", "admin"} /\ ~req.stored)

C6_SessionBeforeCookie ==
    /\ req.sessUser # << >> => (req.source = "session" /\ req.user = req.sessUser)
    /\ req.source = "cookie" =>
          (req.sessUser = << >> /\ req.cookieUser # << >> /\ req.user = req.cookieUser)
    /\ (Dispatched /\ req.sessUser = << >>) => req.source = "cookie"

C6_Witness ==
    /\ Dispatched
    /\ req.source = "session"
    /\ req.cookieUser # << >>
    /\ req.cookieUser # req.sessUser

\* C7: while the session stays logged in and runs with a readable cookie
\* store keep happening, the cookie eventually holds the process-session
\* token, whatever it held at login time.
C7_CookieCatchesUp == LoggedIn ~> (cookie = sessTok \/ ~LoggedIn)

\* C8: a run whose cookie read is not yet known and whose process session
\* holds no verifying token renders nothing (it suspends), in every session
\* state, the logout cycle included.
C8_UnknownReadSuspends ==
    (Served /\ ~req.read /\ req.sessUser = << >>) => req.view = "suspend"

(***************************************************************************)
(* Properties of the sheets model.                                         *)
(***************************************************************************)
RowButtons == {"EDIT_ORDER", "DELETE_ORDER", "EDIT_CLIENT", "DELETE_CLIENT"}

\* C9: an edit or delete issued from a session's form with a row number that
\* another session's delete has made stale is rejected or applied to the
\* record the session selected, never to another record.
C9_AppliedToSelectedRecord ==
    (last.op \in RowButtons /\ last.selectedAt = last.row - 1 /\ last.wrote) =>
        last.target = last.selected

\* C10: an order edit, client edit, order delete or client delete submitted
\* with an empty or whitespace-only reason writes to no tab and appends no
\* audit row.
C10_BlankReasonWritesNothing ==
    (last.op \in RowButtons /\ Strip(last.reason) = << >>) =>
        (~last.wrote /\ ~last.audited)

(***************************************************************************)
(* Properties of the token functions.                                      *)
(***************************************************************************)
TkIdentity == [ok |-> TRUE, username |-> tk.username, name |-> tk.name]

\* C4: verify_token(issue_token(username, display_name)) at time now returns
\* exactly {username, display_name} if and only if now is before the
\* token's expiry, and none otherwise, for all strings, '|' included.
\* Stated here away from the single clock value now = expiry, where
\* verify_token's "int(exp_str) < now" still accepts: the claim is refuted
\* without resting on that boundary.
C4_RoundTripAnyStrings ==
    (tk.phase = "verified" /\ ~tk.mutated /\ tk.now # ExpiryOf(tk.issued)) =>
        (IF tk.now < ExpiryOf(tk.issued) THEN tk.result = TkIdentity
         ELSE tk.result = None)

\* C5: any single-bit mutation of the encoded token makes verify_token
\* return none.
C5_AnyBitFlipRejected ==
    (tk.phase = "verified" /\ tk.mutated) => tk.result = None

(***************************************************************************)
(* Properties of header reconciliation.                                    *)
(***************************************************************************)
\* C16: for each tab and any starting contents (empty tab, matching, shorter,
\* longer or different header row), the tab after the second call of its
\* header reconciliation is identical to the tab after the first call.
C16_ReconcileIdempotent == hd.phase = "twice" => hd.twice = hd.once

C16_Witness ==
    /\ hd.phase = "twice"
    /\ hd.start # << >>
    /\ hd.once # hd.start
    /\ hd.twice = hd.once

(***************************************************************************)
(* Properties of the orders model                                          *)
(***************************************************************************)
\* the age from which an order counts as completed: 120 hours, in seconds
CompletedAge == 120 * 3600

\* C17: whatever the tab holds, the loader reports an order with a
\* timestamp as "Completed" exactly when the clock is at least 120 hours
\* past its Timestamp, whatever its stored Status cell, and reports its
\* ProfitAmt as stored.
C17_LiveStatusOnLoad ==
    \A i \in 1..Len(orders) :
        LET r == load_orders_with_rows(orders, now)[i].row IN
        /\ orders[i].Timestamp # NoTimestamp =>
              (r.Status = "Completed" <=> now - orders[i].Timestamp >= CompletedAge)
        /\ r.ProfitAmt = orders[i].ProfitAmt

\* an order stored as "In Process" is loaded as "Completed" at exactly 120
\* hours, next to one a second younger that is loaded as "In Process"
C17_Witness ==
    \E i, j \in 1..Len(orders) :
        LET df == load_orders_with_rows(orders, now) IN
        /\ orders[i].Status = "In Process"
        /\ now - orders[i].Timestamp = CompletedAge
        /\ df[i].row.Status = "Completed"
        /\ now - orders[j].Timestamp = CompletedAge - 1
        /\ df[j].row.Status = "In Process"

\* the row a submit or an edit has just written
WrittenRow == IF last.op = "SUBMIT_ORDER" THEN last.new ELSE last.after
DerivedStatus == {"In Process", "Completed"}

\* C18: no order submit and no order edit writes a derived status value
\* ("In Process" or "Completed") into the Status cell of the row it writes.
C18_StatusNeverPersisted ==
    (last.op \in {"SUBMIT_ORDER", "EDIT_ORDER"} /\ last.wrote) =>
        WrittenRow.Status \notin DerivedStatus

\* C19: every stored order with a non-negative Amount and a Profit % in
\* 0..100 has ProfitAmt = round(Amount * ProfitPct / 100, 2), a hundredth
\* nearest to the exact product, whether the row was written by a submit or
\* by an edit; so a row created with some values and a row edited to the
\* same values hold the same ProfitAmt.
C19_ProfitAmtOnCreateAndEdit ==
    \A i \in 1..Len(orders) :
        LET o == orders[i]
            exact == o.Amount * o.ProfitPct
        IN (o.Amount >= 0 /\ o.ProfitPct \in 0..1000) =>
              /\ o.ProfitAmt = ProfitAmtOf(o.Amount, o.ProfitPct)
              /\ 1000 * o.ProfitAmt - exact \in -500..500
              /\ \A j \in 1..Len(orders) :
                    (orders[j].Amount = o.Amount /\ orders[j].ProfitPct = o.ProfitPct) =>
                        orders[j].ProfitAmt = o.ProfitAmt

\* an order edited to the values another order was submitted with, the
\* exact product lying halfway between two hundredths
C19_Witness ==
    /\ last.op = "EDIT_ORDER"
    /\ last.wrote
    /\ Len(orders) > OrdersAtStart
    /\ last.row - 1 \in 1..OrdersAtStart
    /\ orders[last.row - 1] = last.after
    /\ orders[Len(orders)].Amount = last.after.Amount
    /\ orders[Len(orders)].ProfitPct = last.after.ProfitPct
    /\ orders[Len(orders)].ProfitAmt = last.after.ProfitAmt
    /\ (last.after.Amount * last.after.ProfitPct) % 1000 = 500
    /\ last.after.ProfitAmt # last.before.ProfitAmt

\* the sheet rows at which orders were deleted
DeletedAt == {audit[k].SheetRow : k \in {n \in 1..Len(audit) : audit[n].Action = "DELETE_ORDER"}}

\* C20: a submitted order is written as a new last row, and the row index it
\* gets is never one at which an order was deleted before.
C20_NoReuseOfDeletedIndex ==
    (last.op = "SUBMIT_ORDER" /\ last.wrote) =>
        /\ orders = Append(last.before, last.new)
        /\ last.row \notin DeletedAt

\* C20, as the tab does it: a submitted order is written as the row below
\* the last data row, every row already there staying as and where it was;
\* the index is a position and can be one a deleted order held.
C20_AppendWritesLastRow ==
    (last.op = "SUBMIT_ORDER" /\ last.wrote) =>
        /\ Len(orders) = Len(last.before) + 1
        /\ SubSeq(orders, 1, Len(last.before)) = last.before
        /\ orders[Len(orders)] = last.new
        /\ last.row = Len(orders) + 1

\* an order appended at the sheet row at which the last order was deleted
C20_Witness ==
    /\ last.op = "SUBMIT_ORDER"
    /\ last.wrote
    /\ last.row \in DeletedAt
    /\ orders[last.row - 1] = last.new
    /\ Len(orders) = last.row - 1

\* C12: an order edit that wrote appended exactly one audit row, an
\* EDIT_ORDER row for that sheet row whose old snapshot is the record the row
\* held immediately before the write and whose new snapshot is the record it
\* holds immediately after, ProfitAmt recomputed from the new Amount and
\* Profit %.
C12_EditAuditSnapshots ==
    (last.op = "EDIT_ORDER" /\ last.wrote) =>
        /\ last.appended = 1
        /\ LET e == audit[Len(audit)] IN
           /\ e.Action = "EDIT_ORDER"
           /\ e.SheetRow = last.row
           /\ e.OldJSON = Some(last.before)
           /\ e.NewJSON = Some(last.after)
           /\ last.after.ProfitAmt = ProfitAmtOf(last.after.Amount, last.after.ProfitPct)

(***************************************************************************)
(* Properties of the race model                                            *)
(***************************************************************************)
\* C14: an order edit that wrote left every column its partial fields do
\* not name (Timestamp, User) at the value the row held at the moment of the
\* write, also when another session changed the row after the run loaded it.
C14_MergesIntoStoredRow ==
    (last.op = "EDIT_ORDER" /\ last.wrote) =>
        /\ last.after.Timestamp = last.before.Timestamp
        /\ last.after.User = last.before.User

\* the edit last written had another edit of the same row, from the same
\* loaded record, written between its load and its write
BothLoadedThenBothWrote ==
    /\ last.op = "EDIT_ORDER"
    /\ last.wrote
    /\ last.logAtWrite = last.logAtLoad + 1
    /\ audit[last.logAtWrite].Action = "EDIT_ORDER"
    /\ audit[last.logAtWrite].SheetRow = last.row
    /\ audit[last.logAtWrite].OldJSON = Some(last.loaded)

\* C15: when two admin sessions have both loaded the same order row and then
\* both write it, the second write is done and logged like the first, with
\* no rejection, and the row then holds the second writer's record: its
\* Client, Amount and Profit % are the second writer's, ProfitAmt is computed
\* from them, and nothing the first writer wrote is left.
C15_LastWriterWins ==
    BothLoadedThenBothWrote =>
        /\ last.appended = 1
        /\ Len(audit) = last.logAtLoad + 2
        /\ audit[Len(audit)].NewJSON = Some(orders[last.row - 1])
        /\ orders[last.row - 1] =
              [last.loaded EXCEPT
                  !.Client = last.values.Client,
                  !.Amount = last.values.Amount,
                  !.ProfitPct = last.values.ProfitPct,
                  !.ProfitAmt = ProfitAmtOf(last.values.Amount, last.values.ProfitPct),
                  !.Status = LiveStatus(last.loaded.Timestamp, now)]

\* the first writer changed the Amount, the second writer left the Amount
\* as loaded: the row holds the Amount from before the first write
C15_Witness ==
    /\ BothLoadedThenBothWrote
    /\ audit[last.logAtWrite].NewJSON.v.Amount # last.loaded.Amount
    /\ last.values.Amount = last.loaded.Amount
    /\ orders[last.row - 1].Amount = last.loaded.Amount
    /\ last.before = audit[last.logAtWrite].NewJSON.v

(***************************************************************************)
(* Properties of the admin screens and the audit log                       *)
(***************************************************************************)
\* the action kinds of the audit log
AuditKinds ==
    {"EDIT_ORDER", "DELETE_ORDER", "ADD_CLIENT", "EDIT_CLIENT", "DELETE_CLIENT",
     "SAVE_PRESET", "DELETE_PRESET", "ADD_USER", "UPDATE_USER"}

\* C11: every step of an admin screen that changes the orders, Clients,
\* FilterPresets or Users tab appends exactly one audit row, which names the
\* actor, an action kind, the tab that changed and the row, and carries the
\* snapshot of the record before (where there was one) and after (where
\* there is one).
C11_EveryMutationAudited ==
    [][(orders' # orders \/ clients' # clients \/ presets' # presets \/ users' # users) =>
          /\ Len(audit') = Len(audit) + 1
          /\ SubSeq(audit', 1, Len(audit)) = audit
          /\ LET e == audit'[Len(audit')]
                 before == IF orders' # orders THEN Len(orders)
                           ELSE IF clients' # clients THEN Len(clients)
                           ELSE IF presets' # presets THEN Len(presets) ELSE Len(users)
                 after  == IF orders' # orders THEN Len(orders')
                           ELSE IF clients' # clients THEN Len(clients')
                           ELSE IF presets' # presets THEN Len(presets') ELSE Len(users')
             IN /\ e.Actor = "Jerry"
                /\ e.Action \in AuditKinds
                /\ e.TargetSheet = (IF orders' # orders THEN ORDERS_SHEET
                                    ELSE IF clients' # clients THEN CLIENTS_SHEET
                                    ELSE IF presets' # presets THEN PRESETS_SHEET
                                    ELSE USERS_SHEET)
                /\ e.SheetRow # NoRow
                /\ (after <= before => e.OldJSON.ok)
                /\ (after >= before => e.NewJSON.ok)]_vars

\* C13: no step changes, reorders or removes an audit row that is there:
\* the audit rows before the step are the first rows after it.
C13_AuditAppendOnly ==
    [][/\ Len(audit') >= Len(audit)
       /\ SubSeq(audit', 1, Len(audit)) = audit]_vars

\* two audit rows of different screens, in the order they were written
C13_Witness ==
    /\ Len(audit) >= 2
    /\ audit[1].TargetSheet # audit[2].TargetSheet
    /\ audit[1].Action # audit[2].Action
    /\ last.audited
    /\ last.op = audit[Len(audit)].Action

(***************************************************************************)
(* Properties of header reconciliation, seeding and the keys of the tabs   *)
(***************************************************************************)
\* C23: for each tab and every starting header row, a legacy row with more
\* columns than the expected header included, the second call of the tab's
\* header reconciliation issues no write.
C23_SecondCallWritesNothing == hd.phase = "twice" => hd.writes = 0

\* the rows of a tab below row 1
DataRows(cells) == SubSeq(cells, 2, Len(cells))

\* C21: the built-in accounts are written to the Users tab only when the tab
\* is completely empty; a call of the seed reconciliation on a tab that
\* holds anything, and every later call, leaves the rows below row 1 as they
\* are: no user row added, removed or changed.
C21_SeededOnce ==
    (hd.tab = USERS_SHEET /\ hd.phase \in {"once", "twice"}) =>
        /\ hd.start # << >> => DataRows(hd.once) = DataRows(hd.start)
        /\ hd.start = << >> => hd.once = << UsersHeader >> \o SeededRows
        /\ hd.phase = "twice" => DataRows(hd.twice) = DataRows(hd.once)

\* the seed reconciliation has run twice on a Users tab in which an admin
\* had deactivated a built-in account: the account is still deactivated
C21_Witness ==
    /\ hd.tab = USERS_SHEET
    /\ hd.phase = "twice"
    /\ Len(hd.start) = 1 + Len(SEED_USERS)
    /\ hd.start[2][1] = "jerry"
    /\ hd.start[2][5] = "FALSE"
    /\ hd.twice[2][5] = "FALSE"
    /\ hd.twice = hd.start

(***************************************************************************)
(* Further properties of the session model                                 *)
(***************************************************************************)
\* the Role cell of the first Users row with that Username, "" without one
RoleInTable(rows, username) ==
    LET hits == {i \in 1..Len(rows) : rows[i].Username = username} IN
    IF hits = {} THEN ""
    ELSE rows[CHOOSE i \in hits : \A j \in hits : i <= j].Role

\* C22: a request is dispatched to the Admin view exactly when the Users row
\* of the authenticated username has Role "admin" in the table as it is at
\* that request, and to the Team view when it has another role.
C22_RoleFromTable ==
    [][(req' # req /\ req'.view \in {"team", "admin"}) =>
          /\ RoleInTable(users, req'.user) # ""
          /\ req'.view = "admin" <=> RoleInTable(users, req'.user) = "admin"]_vars

\* the built-in admin, whose role another admin session has set to "team",
\* is dispatched to the Team view
C22_Witness ==
    /\ req.view = "team"
    /\ req.user = SEED_USERS[1].Username
    /\ SEED_USERS[1].Role = "admin"
    /\ RoleInTable(users, req.user) = "team"
    /\ edits.admin > 0

\* C24: whatever the interleaving of the admin sessions' "Create user"
\* runs, no two Users rows share a Username, and a request whose username is
\* in the table writes nothing.
C24_UsernameUnique ==
    /\ \A i, j \in 1..Len(users) : i # j => users[i].Username # users[j].Username
    /\ (last.op = "ADD_USER" /\ last.existed) => ~last.wrote

\* C25: after any sequence of "Save preset" and "Delete preset" at most one
\* FilterPresets row carries a given name, and after the delete of a name no
\* row with that name is left.
C25_PresetNameIsKey ==
    /\ \A i, j \in 1..Len(presets) : i # j => presets[i].Name # presets[j].Name
    /\ (last.op = "DELETE_PRESET" /\ last.wrote) =>
          \A i \in 1..Len(presets) : presets[i].Name # last.name

(***************************************************************************)
(* Properties of the admin screens when calls to the sheet fail            *)
(***************************************************************************)
FailingOps == {"EDIT_ORDER", "DELETE_CLIENT"}

\* C26: in an audited operation the audit row is appended only after the
\* write to the tab has been made, and nothing is undone: there is never an
\* audit row for a write that was not made, and when the audit append
\* raises the write stays made with no audit row.
C26_AuditAfterMutation ==
    (last.op \in FailingOps /\ "failAt" \in DOMAIN last) =>
        /\ last.logged => last.applied
        /\ last.audited => last.applied
        /\ last.failAt = 2 => (last.applied /\ ~last.logged /\ ~last.audited)
        /\ last.failAt = 1 => (~last.applied /\ ~last.wrote /\ ~last.audited)

\* a client row deleted from the tab whose audit append raised: the row is
\* gone and the audit log is as it was
C26_Witness ==
    /\ last.op = "DELETE_CLIENT"
    /\ "failAt" \in DOMAIN last
    /\ last.failAt = 2
    /\ last.wrote
    /\ Len(clients) = Len(SeedClients) - 1
    /\ audit = << >>

\* C28: once a Clients write has been applied, the cached frame of the tab,
\* if there is one, is the tab as it is, also when the audit append that
\* follows the write raised.
C28_CacheInvalidatedAfterMutation ==
    (last.op = "DELETE_CLIENT" /\ "failAt" \in DOMAIN last /\ last.applied) =>
        (clientsCache.ok => clientsCache.v = load_clients_rows(clients))

(***************************************************************************)
(* Properties of the logout cycle                                          *)
(***************************************************************************)
\* the run that left the logout cycle: it found the flag set, popped it and
\* rendered the login form
LoginAfterLogout == req.flagBefore /\ ~flag /\ req.view = "login"

\* C27: the logout flag is transient.  With runs that read the cookie store
\* and the browser's cookie writes both kept going, every state with the flag
\* set is followed by a run that pops the flag and renders the login form;
\* from that screen, the cookie being absent, a run that reads the cookie
\* store and gets the credentials of an active user stores a token again.
C27_JustLoggedOutIsTransient ==
    /\ flag ~> LoginAfterLogout
    /\ []((LoginAfterLogout /\ cookie = << >>) =>
            \A click \in Clicks : CredentialsOk(click) =>
                LET r == Route(users, sessTok, flag, Known(cookie), click, now) IN
                r.stored /\ r.sess # << >> /\ ~r.flag)

\* the login form rendered by the run that found the cookie absent after a
\* logout, the clear_cookie of the logout carried out by the browser
C27_Witness ==
    /\ LoginAfterLogout
    /\ req.read
    /\ cookie = << >>
    /\ pending = << >>
    /\ sessTok = << >>
    /\ \E click \in Clicks : CredentialsOk(click)

====
